---- MODULE Spec2Model ----
(***************************************************************************)
(* The in-memory key-value store MockPyrakoonClient                        *)
(* (src/src/db/arakoon/pyrakoon/client/mock.py).                           *)
(*                                                                         *)
(* _data and _sequences are class attributes: one dictionary each, shared  *)
(* by every client object of the process.  _cluster and _lock are fields   *)
(* of one client object.  A Python dictionary is a function whose DOMAIN   *)
(* is the set of present keys; a key is a string, modelled as the sequence *)
(* of its characters, so that startswith is computed on it.                *)
(*                                                                         *)
(* The entities of src/src/dal/base.py (class Base) follow the store: their *)
(* declarations, the tables of main.db and the instances of a run.         *)
(***************************************************************************)
EXTENDS Integers, Sequences, FiniteSets, TLC

\* ---------------------------------------------------------------- bounds
\* begin_transaction calls per run
MaxTx == 1
\* calls made with transaction=h before the commit (SpecTx)
MaxOps == 3
\* the identifiers a table hands out
MaxId == 2

\* ------------------------------------------------------------ input sets
None == "None"
Clusters == {"c1", "c2"}
Clients == {"m1", "m2"}
Threads == {"t1", "t2"}
Keys == {<<"a", "1">>, <<"a", "2">>, <<"b", "1">>}
Prefixes == {<<>>, <<"a">>, <<"1">>, <<"a", "1">>, <<"a", "1", "x">>}
\* the order in which a dictionary hands out its keys: arbitrary, but fixed
KeyOrder == << <<"a", "2">>, <<"b", "1">>, <<"a", "1">> >>

\* Python values: a str, a list (mutable) and a tuple (immutable)
StrV(s) == [type |-> "str", items |-> <<s>>]
ListV(items) == [type |-> "list", items |-> items]
TupleV(items) == [type |-> "tuple", items |-> items]
NoValue == [type |-> "none", items |-> <<>>]
Values == {ListV(<<>>), ListV(<<"1">>), TupleV(<<"1">>)}
\* the values and keys of the transaction scenario (SpecTx)
TxValues == {StrV("x"), StrV("y")}
TxKeys == {<<"a", "1">>, <<"b", "1">>}
TxPrefixes == {<<"a">>}

\* the tokens a caller can pass as transaction=: the str(uuid.uuid4()) handles
\* begin_transaction hands out, and any other string, such as a cluster name
Handles == {"uuid" \o ToString(i) : i \in 1..MaxTx}
Tokens == Handles \cup {"c1"}

VARIABLES
    _cluster,    \* client -> its cluster name (None: no such client object)
    _lock,       \* client -> the thread holding its Lock (None: free)
    _data,       \* MockPyrakoonClient._data: cluster -> {key: value}
    _sequences,  \* MockPyrakoonClient._sequences: name -> a dictionary or a list
    last,        \* the last call made, its arguments and what it gave back
    recorded,    \* history: the calls made with transaction=h, in order
    begun,       \* history: the handle of the scenario and the mapping when it was begun
    pc           \* thread -> where it is in the operation it executes

\* The entities of src/src/dal/base.py (see the section on Base below)
VARIABLES
    classes,     \* entity class -> its _table, _properties and _relations
    db,          \* main.db: table name -> its columns, its rows and its sequence
    objects,     \* the entity instances of the process: reference -> fields
    dlast,       \* the last call made on the entities and what it gave back
    trail        \* history: the two calls made before the last one, in order

dalvars == <<classes, db, objects, dlast, trail>>

\* The mocked services of src/src/services/mockups/systemd.py
VARIABLES
    services,    \* SystemdMock.services: client key -> service name -> state
    slast        \* the last call made on SystemdMock and what it gave back

mockvars == <<services, slast>>

\* The API client of src/src/api/client/baseclient.py
VARIABLES
    baseclient,  \* the BaseClient object: client_id, _raw_response, _volatile_client, _token
    volatile,    \* what the cache store holds under the client's key
    issued,      \* the token the API handed out last
    alast        \* the last _call: the requests it sent and what it gave back

apivars == <<baseclient, volatile, issued, alast>>

vars == <<_cluster, _lock, _data, _sequences, last, recorded, begun, pc, dalvars, mockvars, apivars>>

\* a process that uses no mocked service
NoServices ==
    /\ services = <<>>
    /\ slast = <<>>

\* a process that has no API client
NoApi ==
    /\ baseclient = <<>>
    /\ volatile = <<>>
    /\ issued = <<>>
    /\ alast = <<>>

\* a process that uses no entity
NoEntities ==
    /\ classes = <<>>
    /\ db = <<>>
    /\ objects = <<>>
    /\ dlast = <<>>
    /\ trail = <<>>

\* ------------------------------------------------------------ dictionaries
EmptyDict == [k \in {} |-> NoValue]
DictSet(d, k, v) == [x \in (DOMAIN d) \cup {k} |-> IF x = k THEN v ELSE d[x]]
DictDel(d, k) == [x \in (DOMAIN d) \ {k} |-> d[x]]
\* d.keys(): the present keys, in the dictionary's order
DictKeys(d) == SelectSeq(KeyOrder, LAMBDA k : k \in DOMAIN d)

\* prefix in k: the test for a substring in place of startswith
startswith_anywhere(k, prefix) ==
    \E i \in 0..Len(k) :
        /\ i + Len(prefix) <= Len(k)
        /\ SubSeq(k, i + 1, i + Len(prefix)) = prefix

\* str.startswith
startswith(k, prefix) ==
    /\ Len(prefix) <= Len(k)
    /\ SubSeq(k, 1, Len(prefix)) = prefix

\* ujson.dumps(value, sort_keys=True): a list and a tuple are both written as
\* a JSON array, a str as a JSON string
dumps(value) ==
    [json |-> IF value.type \in {"list", "tuple"} THEN "array" ELSE "string",
     items |-> value.items]

\* _read: the dictionary of the client's cluster
_read(m) == _data[_cluster[m]]

\* _write: stores the dictionary as the cluster's
_write(m, data) == [_data EXCEPT ![_cluster[m]] = data]

\* the record of a call, before its arguments and its result are filled in
Call(op, m) ==
    [op |-> op, client |-> m, transaction |-> None, key |-> <<>>,
     value |-> NoValue, prefix |-> <<>>, must_exist |-> TRUE, keys |-> <<>>,
     outcome |-> "ok", rvalue |-> NoValue, rkeys |-> <<>>, rvalues |-> <<>>,
     shared |-> FALSE]

\* The values of _sequences.  __init__ stores a dictionary {uuid: list} under
\* the cluster name; a list under a name is what set, delete, assert_value,
\* assert_exists and apply_transaction look for.
DictEntry(d) == [type |-> "dict", d |-> d, l |-> <<>>]
ListEntry(l) == [type |-> "list", d |-> [h \in {} |-> <<>>], l |-> l]

\* ------------------------------------------- the bodies, on a dictionary
\* data[key] = copy.deepcopy(value)
set_to(data, key, value) == DictSet(data, key, value)

\* a delete that raises for every absent key, whatever must_exist
delete_from_strict(data, key, must_exist) ==
    IF key \in DOMAIN data
    THEN [data |-> DictDel(data, key), outcome |-> "ok"]
    ELSE [data |-> data, outcome |-> "ArakoonNotFound"]

\* if key in data: del data[key] / elif must_exist is True: raise
delete_from(data, key, must_exist) ==
    IF key \in DOMAIN data
    THEN [data |-> DictDel(data, key), outcome |-> "ok"]
    ELSE [data |-> data, outcome |-> IF must_exist THEN "ArakoonNotFound" ELSE "ok"]

\* for key in data.keys(): if key.startswith(prefix): del data[key]
RECURSIVE delete_keys(_, _, _)
delete_keys(data, keys, p) ==
    IF keys = <<>>
    THEN data
    ELSE delete_keys(IF startswith(Head(keys), p) THEN DictDel(data, Head(keys)) ELSE data,
                     Tail(keys), p)

\* an assert_value that compares the values themselves (data[key] != value)
assert_value_outcome_equal(data, key, value) ==
    IF key \notin DOMAIN data THEN "ArakoonNotFound"
    ELSE IF data[key] # value THEN "ArakoonNotFound"
    ELSE "ok"

\* what assert_value does without a transaction
assert_value_outcome(data, key, value) ==
    IF key \notin DOMAIN data THEN "ArakoonNotFound"
    ELSE IF dumps(data[key]) # dumps(value) THEN "ArakoonNotFound"
    ELSE "ok"

\* what assert_exists does without a transaction
assert_exists_outcome(data, key) ==
    IF key \notin DOMAIN data THEN "ArakoonNotFound" ELSE "ok"

\* A call without a transaction, on all: cluster -> dictionary.  This is also
\* item[0](**item[1]) of apply_transaction: the recorded bound method called
\* with the recorded arguments, so on the cluster of the client that recorded.
direct(all, call) ==
    LET c == _cluster[call.client]
        data == all[c]
        put(d) == [all EXCEPT ![c] = d]
    IN  CASE call.op = "set" ->
               [data |-> put(set_to(data, call.key, call.value)), outcome |-> "ok"]
          [] call.op = "delete" ->
               LET r == delete_from(data, call.key, call.must_exist)
               IN  [data |-> put(r.data), outcome |-> r.outcome]
          [] call.op = "assert_value" ->
               [data |-> all, outcome |-> assert_value_outcome(data, call.key, call.value)]
          [] call.op = "assert_exists" ->
               [data |-> all, outcome |-> assert_exists_outcome(data, call.key)]
          [] OTHER ->
               [data |-> put(delete_keys(data, DictKeys(data), call.prefix)), outcome |-> "ok"]

\* for item in items: item[0](**item[1]): the calls one after the other; the
\* first that raises ends the loop, and what the earlier ones did stays done
RECURSIVE replay(_, _)
replay(all, items) ==
    IF items = <<>>
    THEN [data |-> all, outcome |-> "ok", raised |-> None]
    ELSE LET r == direct(all, Head(items))
         IN  IF r.outcome # "ok"
             THEN [data |-> r.data, outcome |-> r.outcome, raised |-> Head(items).op]
             ELSE replay(r.data, Tail(items))

\* the call applied at once
apply(call) ==
    LET r == direct(_data, call)
    IN  /\ _data' = r.data
        /\ last' = [call EXCEPT !.outcome = r.outcome]
        /\ UNCHANGED _sequences

\* a call with transaction=... that is made at once, as delete_prefix is
buffer_applied_at_once(call, transaction) ==
    apply([call EXCEPT !.transaction = transaction])

\* self._sequences[transaction].append([method, kwargs]): a token that is no
\* key of _sequences raises KeyError; a dictionary has no append
buffer(call, transaction) ==
    /\ IF transaction \notin DOMAIN _sequences
       THEN /\ last' = [call EXCEPT !.transaction = transaction, !.outcome = "KeyError"]
            /\ UNCHANGED _sequences
       ELSE IF _sequences[transaction].type = "list"
       THEN /\ last' = [call EXCEPT !.transaction = transaction]
            /\ _sequences' = [_sequences EXCEPT
                                 ![transaction] = ListEntry(Append(@.l, call))]
       ELSE /\ last' = [call EXCEPT !.transaction = transaction,
                                    !.outcome = "AttributeError"]
            /\ UNCHANGED _sequences
    /\ UNCHANGED _data

\* ------------------------------------------------------------- operations
\* a get that takes the key out of the dictionary (data.pop(key))
get_popping(m, key) ==
    /\ _cluster[m] # None
    /\ LET data == _read(m)
           call == [Call("get", m) EXCEPT !.key = key]
       IN  /\ last' = IF key \in DOMAIN data
                      THEN [call EXCEPT !.rvalue = data[key]]
                      ELSE [call EXCEPT !.outcome = "ArakoonNotFound"]
           /\ _data' = _write(m, DictDel(data, key))
    /\ UNCHANGED _sequences

get(m, key) ==
    /\ _cluster[m] # None
    /\ LET data == _read(m)
           call == [Call("get", m) EXCEPT !.key = key]
       IN  last' = IF key \in DOMAIN data
                   THEN [call EXCEPT !.rvalue = data[key]]
                   ELSE [call EXCEPT !.outcome = "ArakoonNotFound"]
    /\ UNCHANGED <<_data, _sequences>>

\* a get_multi that passes over the absent keys
RECURSIVE yielded_present(_, _)
yielded_present(data, keys) ==
    IF keys = <<>> THEN <<>>
    ELSE IF Head(keys) \notin DOMAIN data THEN yielded_present(data, Tail(keys))
    ELSE <<data[Head(keys)]>> \o yielded_present(data, Tail(keys))

\* the values get_multi yields before it raises or ends
RECURSIVE yielded(_, _)
yielded(data, keys) ==
    IF keys = <<>> \/ Head(keys) \notin DOMAIN data
    THEN <<>>
    ELSE <<data[Head(keys)]>> \o yielded(data, Tail(keys))

\* must_exist is not looked at
get_multi(m, keys, must_exist) ==
    /\ _cluster[m] # None
    /\ LET data == _read(m)
           call == [Call("get_multi", m) EXCEPT !.keys = keys,
                                                !.must_exist = must_exist]
           got == yielded(data, keys)
       IN  last' = [call EXCEPT !.rvalues = got,
                                !.outcome = IF Len(got) = Len(keys) THEN "ok"
                                            ELSE "ArakoonNotFound"]
    /\ UNCHANGED <<_data, _sequences>>

set(m, key, value, transaction) ==
    /\ _cluster[m] # None
    /\ LET call == [Call("set", m) EXCEPT !.key = key, !.value = value]
       IN  IF transaction # None THEN buffer(call, transaction) ELSE apply(call)

prefix(m, p) ==
    /\ _cluster[m] # None
    /\ LET data == _read(m)
       IN  last' = [Call("prefix", m) EXCEPT
                       !.prefix = p,
                       !.rkeys = SelectSeq(DictKeys(data), LAMBDA k : startswith(k, p))]
    /\ UNCHANGED <<_data, _sequences>>

\* each value is the stored object itself, not a copy of it
prefix_entries(m, p) ==
    /\ _cluster[m] # None
    /\ LET data == _read(m)
           ks == SelectSeq(DictKeys(data), LAMBDA k : startswith(k, p))
       IN  last' = [Call("prefix_entries", m) EXCEPT
                       !.prefix = p,
                       !.rkeys = ks,
                       !.rvalues = [i \in 1..Len(ks) |-> data[ks[i]]],
                       !.shared = TRUE]
    /\ UNCHANGED <<_data, _sequences>>

delete(m, key, must_exist, transaction) ==
    /\ _cluster[m] # None
    /\ LET call == [Call("delete", m) EXCEPT !.key = key, !.must_exist = must_exist]
       IN  IF transaction # None THEN buffer(call, transaction) ELSE apply(call)

\* a delete_prefix that removes the first key that matches and no other
delete_prefix_first(m, p, transaction) ==
    /\ _cluster[m] # None
    /\ LET data == _read(m)
           found == SelectSeq(DictKeys(data), LAMBDA k : startswith(k, p))
       IN  _data' = IF found = <<>> THEN _data ELSE _write(m, DictDel(data, Head(found)))
    /\ last' = [Call("delete_prefix", m) EXCEPT !.prefix = p, !.transaction = transaction]
    /\ UNCHANGED _sequences

\* transaction is not looked at
delete_prefix(m, p, transaction) ==
    /\ _cluster[m] # None
    /\ LET r == direct(_data, [Call("delete_prefix", m) EXCEPT !.prefix = p])
       IN  _data' = r.data
    /\ last' = [Call("delete_prefix", m) EXCEPT !.prefix = p, !.transaction = transaction]
    /\ UNCHANGED _sequences

nop(m) ==
    /\ _cluster[m] # None
    /\ last' = Call("nop", m)
    /\ UNCHANGED <<_data, _sequences>>

\* get, with ArakoonNotFound turned into False
exists(m, key) ==
    /\ _cluster[m] # None
    /\ last' = [Call("exists", m) EXCEPT
                   !.key = key,
                   !.rvalue = StrV(IF key \in DOMAIN _read(m) THEN "True" ELSE "False")]
    /\ UNCHANGED <<_data, _sequences>>

assert_value(m, key, value, transaction) ==
    /\ _cluster[m] # None
    /\ LET call == [Call("assert_value", m) EXCEPT !.key = key, !.value = value]
       IN  IF transaction # None THEN buffer(call, transaction) ELSE apply(call)

assert_exists(m, key, transaction) ==
    /\ _cluster[m] # None
    /\ LET call == [Call("assert_exists", m) EXCEPT !.key = key]
       IN  IF transaction # None THEN buffer(call, transaction) ELSE apply(call)

\* the handles begin_transaction has handed out
BegunHandles ==
    UNION {DOMAIN _sequences[n].d : n \in DOMAIN _sequences}
      \cup {n \in DOMAIN _sequences : _sequences[n].type = "list"}

\* str(uuid.uuid4()): a string no earlier call has returned
uuid4 == "uuid" \o ToString(Cardinality(BegunHandles) + 1)

\* key = str(uuid.uuid4()); self._sequences[self._cluster][key] = []
begin_transaction(m) ==
    /\ _cluster[m] # None
    /\ Cardinality(BegunHandles) < MaxTx
    /\ LET key == uuid4
           c == _cluster[m]
       IN  /\ _sequences' = [_sequences EXCEPT
                                ![c] = DictEntry(DictSet(_sequences[c].d, key, <<>>))]
           /\ last' = [Call("begin_transaction", m) EXCEPT !.rvalue = StrV(key)]
    /\ UNCHANGED _data

\* for item in self._sequences[transaction]: item[0](**item[1]).  A token that
\* is no key of _sequences raises KeyError.  Over a list the recorded calls
\* are made in order.  Over a dictionary the loop runs over its keys, the
\* uuid strings: the first raises TypeError (a character is called); with no
\* key the loop ends at once.
apply_transaction(m, transaction) ==
    /\ _cluster[m] # None
    /\ LET call == [Call("apply_transaction", m) EXCEPT !.transaction = transaction]
       IN  IF transaction \notin DOMAIN _sequences
           THEN /\ last' = [call EXCEPT !.outcome = "KeyError"]
                /\ UNCHANGED _data
           ELSE IF _sequences[transaction].type = "list"
           THEN LET r == replay(_data, _sequences[transaction].l)
                IN  /\ last' = [call EXCEPT !.outcome = r.outcome]
                    /\ _data' = r.data
           ELSE /\ last' = [call EXCEPT
                               !.outcome = IF DOMAIN _sequences[transaction].d # {}
                                           THEN "TypeError" ELSE "ok"]
                /\ UNCHANGED _data
    /\ UNCHANGED _sequences

\* the caller changes, in place, a list it got from the last read: the i-th
\* value of get_multi or prefix_entries, or the value of get.  The objects
\* prefix_entries hands out are the store's own.
mutate(i, items) ==
    /\ last.op \in {"get", "get_multi", "prefix_entries"}
    /\ last.outcome = "ok"
    /\ last.op = "get" \/ i \in 1..Len(last.rvalues)
    /\ LET obj == IF last.op = "get" THEN last.rvalue ELSE last.rvalues[i]
           key == CASE last.op = "get" -> last.key
                    [] last.op = "get_multi" -> last.keys[i]
                    [] OTHER -> last.rkeys[i]
       IN  /\ obj.type = "list"
           /\ obj.items # items
           /\ _data' = IF last.shared
                       THEN _write(last.client, set_to(_read(last.client), key, ListV(items)))
                       ELSE _data
           /\ last' = [Call("mutate", last.client) EXCEPT
                          !.key = key, !.value = ListV(items), !.shared = last.shared]
    /\ UNCHANGED _sequences

\* a constructor that gives the cluster an empty dictionary every time
MockPyrakoonClient_init_fresh(m, cluster) ==
    /\ _cluster' = [_cluster EXCEPT ![m] = cluster]
    /\ _lock' = [_lock EXCEPT ![m] = None]
    /\ _sequences' = [c \in (DOMAIN _sequences) \cup {cluster} |->
                         IF c = cluster THEN DictEntry([h \in {} |-> <<>>])
                         ELSE _sequences[c]]
    /\ _data' = [c \in (DOMAIN _data) \cup {cluster} |->
                    IF c = cluster THEN EmptyDict ELSE _data[c]]
    /\ last' = Call("__init__", m)

\* MockPyrakoonClient(cluster, nodes), bound to the name m: the class-level
\* dictionaries get an entry for the cluster when they have none
MockPyrakoonClient_init(m, cluster) ==
    /\ _cluster' = [_cluster EXCEPT ![m] = cluster]
    /\ _lock' = [_lock EXCEPT ![m] = None]
    /\ _sequences' = IF cluster \in DOMAIN _sequences THEN _sequences
                     ELSE [c \in (DOMAIN _sequences) \cup {cluster} |->
                              IF c = cluster THEN DictEntry([h \in {} |-> <<>>])
                              ELSE _sequences[c]]
    /\ _data' = IF cluster \in DOMAIN _data THEN _data
                ELSE [c \in (DOMAIN _data) \cup {cluster} |->
                         IF c = cluster THEN EmptyDict ELSE _data[c]]
    /\ last' = Call("__init__", m)

\* ------------------------------------------------ the store, one caller
KeyLists ==
    {<<>>, << <<"a", "1">> >>, << <<"a", "1">>, <<"b", "1">> >>,
     << <<"b", "1">>, <<"a", "1">> >>, << <<"a", "2">>, <<"a", "2">> >>}
Transactions == {None} \cup Tokens

\* one client object m1 of cluster c1 has been constructed
Init ==
    /\ _cluster = [m \in Clients |-> IF m = "m1" THEN "c1" ELSE None]
    /\ _lock = [m \in Clients |-> None]
    /\ _data = [c \in {"c1"} |-> EmptyDict]
    /\ _sequences = [c \in {"c1"} |-> DictEntry([h \in {} |-> <<>>])]
    /\ last = Call("__init__", "m1")
    /\ recorded = <<>>
    /\ begun = [handle |-> None, data |-> EmptyDict]
    /\ pc = [t \in Threads |-> [at |-> "idle"]]
    /\ NoEntities
    /\ NoServices
    /\ NoApi

\* a call of the one caller: no other thread, no history kept
Caller(op) == op /\ UNCHANGED <<_cluster, _lock, recorded, begun, pc, dalvars, mockvars, apivars>>

Next ==
    \/ \E m \in Clients, key \in Keys : Caller(get(m, key))
    \/ \E m \in Clients, keys \in KeyLists, must_exist \in BOOLEAN :
          Caller(get_multi(m, keys, must_exist))
    \/ \E m \in Clients, key \in Keys, value \in Values, t \in Transactions :
          Caller(set(m, key, value, t))
    \/ \E m \in Clients, p \in Prefixes : Caller(prefix(m, p))
    \/ \E m \in Clients, p \in Prefixes : Caller(prefix_entries(m, p))
    \/ \E m \in Clients, key \in Keys, must_exist \in BOOLEAN, t \in Transactions :
          Caller(delete(m, key, must_exist, t))
    \/ \E m \in Clients, p \in Prefixes, t \in Transactions : Caller(delete_prefix(m, p, t))
    \/ \E m \in Clients : Caller(nop(m))
    \/ \E m \in Clients, key \in Keys : Caller(exists(m, key))
    \/ \E m \in Clients, key \in Keys, value \in Values, t \in Transactions :
          Caller(assert_value(m, key, value, t))
    \/ \E m \in Clients, key \in Keys, t \in Transactions : Caller(assert_exists(m, key, t))
    \/ \E m \in Clients : Caller(begin_transaction(m))
    \/ \E m \in Clients, t \in Tokens : Caller(apply_transaction(m, t))
    \/ \E i \in 1..Cardinality(Keys), items \in {<<>>, <<"1">>} : Caller(mutate(i, items))

Spec == Init /\ [][Next]_vars

\* ------------------------------------- one transaction, from begin to commit
\* The caller begins one transaction, makes up to MaxOps calls with
\* transaction=h and commits.  recorded keeps those calls as made; begun keeps
\* the handle and the mapping the transaction started from.
TxContents == UNION {[S -> TxValues] : S \in SUBSET TxKeys}

InitTx ==
    /\ _cluster = [m \in Clients |-> IF m = "m1" THEN "c1" ELSE None]
    /\ _lock = [m \in Clients |-> None]
    /\ _data \in {[c \in {"c1"} |-> d] : d \in TxContents}
    /\ _sequences = [c \in {"c1"} |-> DictEntry([h \in {} |-> <<>>])]
    /\ last = Call("__init__", "m1")
    /\ recorded = <<>>
    /\ begun = [handle |-> None, data |-> EmptyDict]
    /\ pc = [t \in Threads |-> [at |-> "idle"]]
    /\ NoEntities
    /\ NoServices
    /\ NoApi

TxBegin ==
    /\ begun.handle = None
    /\ begin_transaction("m1")
    /\ begun' = [handle |-> uuid4, data |-> _read("m1")]
    /\ UNCHANGED <<_cluster, _lock, recorded, pc, dalvars, mockvars, apivars>>

TxCall(op) ==
    /\ begun.handle # None
    /\ last.op # "apply_transaction"
    /\ Len(recorded) < MaxOps
    /\ op
    /\ recorded' = Append(recorded, last')
    /\ UNCHANGED <<_cluster, _lock, begun, pc, dalvars, mockvars, apivars>>

TxApply ==
    /\ begun.handle # None
    /\ last.op # "apply_transaction"
    /\ apply_transaction("m1", begun.handle)
    /\ UNCHANGED <<_cluster, _lock, recorded, begun, pc, dalvars, mockvars, apivars>>

NextTx ==
    \/ TxBegin
    \/ \E key \in TxKeys, value \in TxValues : TxCall(set("m1", key, value, begun.handle))
    \/ \E key \in TxKeys, must_exist \in BOOLEAN :
          TxCall(delete("m1", key, must_exist, begun.handle))
    \/ \E p \in TxPrefixes : TxCall(delete_prefix("m1", p, begun.handle))
    \/ \E key \in TxKeys, value \in TxValues :
          TxCall(assert_value("m1", key, value, begun.handle))
    \/ \E key \in TxKeys : TxCall(assert_exists("m1", key, begun.handle))
    \/ TxApply

SpecTx == InitTx /\ [][NextTx]_vars

\* ------------------------------------------------- clients and clusters
\* The process constructs clients for two cluster names, under two names that
\* it binds again and again, and works through them.
InitClusters ==
    /\ _cluster = [m \in Clients |-> None]
    /\ _lock = [m \in Clients |-> None]
    /\ _data = <<>>
    /\ _sequences = <<>>
    /\ last = Call("import", None)
    /\ recorded = <<>>
    /\ begun = [handle |-> None, data |-> EmptyDict]
    /\ pc = [t \in Threads |-> [at |-> "idle"]]
    /\ NoEntities
    /\ NoServices
    /\ NoApi

Constructor(op) == op /\ UNCHANGED <<recorded, begun, pc, dalvars, mockvars, apivars>>

NextClusters ==
    \/ \E m \in Clients, cluster \in Clusters : Constructor(MockPyrakoonClient_init(m, cluster))
    \/ \E m \in Clients, key \in TxKeys : Caller(get(m, key))
    \/ \E m \in Clients, key \in TxKeys, value \in TxValues : Caller(set(m, key, value, None))
    \/ \E m \in Clients : Caller(prefix(m, <<>>))
    \/ \E m \in Clients, key \in TxKeys : Caller(delete(m, key, TRUE, None))
    \/ \E m \in Clients, p \in TxPrefixes : Caller(delete_prefix(m, p, None))
    \/ \E m \in Clients, t \in Clusters : Caller(apply_transaction(m, t))

SpecClusters == InitClusters /\ [][NextClusters]_vars

\* ------------------------------------------------- the store, two threads
\* Two client objects of the same cluster, each with the Lock its __init__
\* made, used by two threads.  A decorated method is entered (its client's
\* lock taken), runs its body step by step, and is left (the lock released).
\* apply_transaction and begin_transaction are not decorated.
ThKeys == {<<"a", "1">>}
ThValues == {ListV(<<>>), ListV(<<"1">>)}
Idle == [at |-> "idle", call |-> Call("none", None), rest |-> <<>>]

InitThreads ==
    /\ _cluster = [m \in Clients |-> "c1"]
    /\ _lock = [m \in Clients |-> None]
    /\ _data = [c \in {"c1"} |-> EmptyDict]
    /\ _sequences = [c \in {"c1"} |-> DictEntry([h \in {} |-> <<>>])]
    /\ last = Call("__init__", "m1")
    /\ recorded = <<>>
    /\ begun = [handle |-> None, data |-> EmptyDict]
    /\ pc = [t \in Threads |-> Idle]
    /\ NoEntities
    /\ NoServices
    /\ NoApi

\* @locked(): the method is run holding self._lock
locked_enter(t, call) ==
    /\ pc[t].at = "idle"
    /\ _cluster[call.client] # None
    /\ _lock[call.client] = None
    /\ _lock' = [_lock EXCEPT ![call.client] = t]
    /\ pc' = [pc EXCEPT ![t] = [at |-> "locked", call |-> call, rest |-> <<>>]]
    /\ UNCHANGED <<_cluster, _data, _sequences, last, recorded, begun, dalvars, mockvars, apivars>>

\* the next step of the decorated method thread t is in.  delete tests
\* key in data and then runs del data[key], which raises KeyError when the
\* key has gone in between; set is one store into the dictionary.  The
\* method's return or raise releases the lock.
locked_step(t) ==
    /\ pc[t].at \in {"locked", "checked"}
    /\ LET call == pc[t].call
           data == _read(call.client)
           leave(outcome) ==
               /\ _lock' = [_lock EXCEPT ![call.client] = None]
               /\ pc' = [pc EXCEPT ![t] = Idle]
               /\ last' = [call EXCEPT !.outcome = outcome]
       IN  CASE call.op = "delete" /\ pc[t].at = "locked" /\ call.key \in DOMAIN data ->
                  /\ pc' = [pc EXCEPT ![t].at = "checked"]
                  /\ UNCHANGED <<_data, _lock, last>>
             [] call.op = "delete" /\ pc[t].at = "checked" ->
                  IF call.key \in DOMAIN data
                  THEN /\ _data' = _write(call.client, DictDel(data, call.key))
                       /\ leave("ok")
                  ELSE /\ UNCHANGED _data
                       /\ leave("KeyError")
             [] OTHER ->
                  LET r == direct(_data, call)
                  IN  /\ _data' = r.data
                      /\ leave(r.outcome)
    /\ UNCHANGED <<_cluster, _sequences, recorded, begun, dalvars, mockvars, apivars>>

thread_begin_transaction(t, m) ==
    /\ pc[t].at = "idle"
    /\ begin_transaction(m)
    /\ UNCHANGED <<_cluster, _lock, recorded, begun, pc, dalvars, mockvars, apivars>>

\* apply_transaction is entered: no lock is taken
apply_enter(t, m, transaction) ==
    /\ pc[t].at = "idle"
    /\ _cluster[m] # None
    /\ pc' = [pc EXCEPT ![t] =
                 [at |-> "applying",
                  call |-> [Call("apply_transaction", m) EXCEPT !.transaction = transaction],
                  rest |-> <<>>]]
    /\ UNCHANGED <<_cluster, _lock, _data, _sequences, last, recorded, begun, dalvars, mockvars, apivars>>

\* the next step of apply_transaction: the lookup of self._sequences[transaction]
\* and then one item of the loop at a time, each a decorated method
apply_step(t) ==
    /\ pc[t].at \in {"applying", "replaying"}
    /\ LET call == pc[t].call
           transaction == call.transaction
           leave(outcome) ==
               /\ pc' = [pc EXCEPT ![t] = Idle]
               /\ last' = [call EXCEPT !.outcome = outcome]
       IN  IF pc[t].at = "applying"
           THEN /\ UNCHANGED _data
                /\ IF transaction \notin DOMAIN _sequences
                   THEN leave("KeyError")
                   ELSE IF _sequences[transaction].type = "dict"
                   THEN leave(IF DOMAIN _sequences[transaction].d # {}
                              THEN "TypeError" ELSE "ok")
                   ELSE IF _sequences[transaction].l = <<>>
                   THEN leave("ok")
                   ELSE /\ pc' = [pc EXCEPT ![t].at = "replaying",
                                            ![t].rest = _sequences[transaction].l]
                        /\ UNCHANGED last
           ELSE LET item == Head(pc[t].rest)
                    r == direct(_data, item)
                IN  /\ _lock[item.client] = None
                    /\ _data' = r.data
                    /\ IF r.outcome # "ok" \/ Tail(pc[t].rest) = <<>>
                       THEN leave(r.outcome)
                       ELSE /\ pc' = [pc EXCEPT ![t].rest = Tail(@)]
                            /\ UNCHANGED last
    /\ UNCHANGED <<_cluster, _lock, _sequences, recorded, begun, dalvars, mockvars, apivars>>

NextThreads ==
    \/ \E t \in Threads, m \in Clients, key \in ThKeys, value \in ThValues :
          locked_enter(t, [Call("set", m) EXCEPT !.key = key, !.value = value])
    \/ \E t \in Threads, m \in Clients, key \in ThKeys, must_exist \in BOOLEAN :
          locked_enter(t, [Call("delete", m) EXCEPT !.key = key, !.must_exist = must_exist])
    \/ \E t \in Threads : locked_step(t)
    \/ \E t \in Threads, m \in Clients : thread_begin_transaction(t, m)
    \/ \E t \in Threads, m \in Clients, transaction \in Tokens : apply_enter(t, m, transaction)
    \/ \E t \in Threads : apply_step(t)

SpecThreads == InitThreads /\ [][NextThreads]_vars

\* =================================================================== Base
\* The entities of src/src/dal/base.py.  An entity class declares _table,
\* _properties (Property objects, src/src/dal/structures.py) and _relations
\* ((name, class) pairs); its instances are rows of the table _table of the
\* SQLite file main.db.  The SQLite library is the one of the platforms the
\* package is built for: it accepts LIMIT on UPDATE and DELETE.

\* ------------------------------------------------------ Python values
PyNone == [type |-> "NoneType", v |-> 0]
PyInt(n) == [type |-> "int", v |-> n]
PyStr(s) == [type |-> "str", v |-> s]
PyBool(b) == [type |-> "bool", v |-> b]
\* a list of integers
PyList(items) == [type |-> "list", v |-> items]
\* a dictionary {key: integer}, its keys Python values
PyDict(d) == [type |-> "dict", v |-> d]

\* the values a caller gives a property of a semantic type
ValidValues(property_type) ==
    CASE property_type = "int" -> {PyInt(0), PyInt(5)}
      [] property_type = "str" -> {PyStr("x")}
      [] property_type = "list" -> {PyList(<<>>), PyList(<<1>>)}
      [] property_type = "dict" -> {PyDict([k \in {PyStr("a")} |-> 1]),
                                    PyDict([k \in {PyInt(1)} |-> 1])}
      [] property_type = "bool" -> {PyBool(TRUE), PyBool(FALSE)}
      [] OTHER -> {PyStr("x"), PyList(<<1>>)}

\* ------------------------------------------------------ SQLite values
SqlNull == [type |-> "NULL", v |-> 0]
SqlInt(n) == [type |-> "INTEGER", v |-> n]
SqlText(t) == [type |-> "TEXT", v |-> t]
\* the text of a str, and the texts json.dumps writes
Raw(s) == [json |-> "raw", v |-> s]
JsonNull == [json |-> "null", v |-> 0]

\* a Python value bound to a '?' of a statement
bind(data) ==
    CASE data.type = "NoneType" -> SqlNull
      [] data.type = "int" -> SqlInt(data.v)
      [] data.type = "bool" -> SqlInt(IF data.v THEN 1 ELSE 0)
      [] OTHER -> SqlText(Raw(data.v))

\* a field of a fetched row as a Python value
fetched(field) ==
    CASE field.type = "NULL" -> PyNone
      [] field.type = "INTEGER" -> PyInt(field.v)
      [] OTHER -> PyStr(field.v.v)

\* str(key): the key of a JSON object is a string
key_text(key) == IF key.type = "int" THEN ToString(key.v) ELSE key.v

\* json.dumps(data, sort_keys=True)
json_dumps(data) ==
    CASE data.type = "NoneType" -> JsonNull
      [] data.type = "int" -> [json |-> "number", v |-> data.v]
      [] data.type = "bool" -> [json |-> IF data.v THEN "true" ELSE "false", v |-> 0]
      [] data.type = "str" -> [json |-> "string", v |-> data.v]
      [] data.type = "list" -> [json |-> "array", v |-> data.v]
      [] OTHER -> [json |-> "object",
                   v |-> [t \in {key_text(k) : k \in DOMAIN data.v}
                            |-> data.v[CHOOSE k \in DOMAIN data.v : key_text(k) = t]]]

\* json.loads(text)
json_loads(text) ==
    CASE text.json = "null" -> PyNone
      [] text.json = "number" -> PyInt(text.v)
      [] text.json = "true" -> PyBool(TRUE)
      [] text.json = "false" -> PyBool(FALSE)
      [] text.json = "string" -> PyStr(text.v)
      [] text.json = "array" -> PyList(text.v)
      [] OTHER -> PyDict([k \in {PyStr(t) : t \in DOMAIN text.v} |-> text.v[k.v]])

\* Base._get_prop_type
Base_get_prop_type(prop_type) ==
    IF prop_type \in {"int", "bool"} THEN "INTEGER" ELSE "TEXT"

\* Base._serialize
Base_serialize(prop_type, data) ==
    IF prop_type \in {"int", "str"} THEN bind(data)
    ELSE IF prop_type \in {"list", "dict", None} THEN SqlText(json_dumps(data))
    ELSE SqlInt(IF data = PyBool(TRUE) THEN 1 ELSE 0)

\* Base._deserialize
Base_deserialize(prop_type, data) ==
    IF prop_type \in {"int", "str"} THEN fetched(data)
    ELSE IF prop_type \in {"list", "dict", None}
         THEN IF data # SqlNull THEN json_loads(data.v) ELSE PyNone
    ELSE PyBool(data = SqlInt(1))

\* ------------------------------------------------------ the declarations
\* structures.Property(name, property_type, unique=False, mandatory=True)
Property(name, property_type, unique, mandatory) ==
    [name |-> name, property_type |-> property_type, unique |-> unique,
     mandatory |-> mandatory]

PropertyTypes == {"int", "str", "list", "dict", "bool", None}

\* '_{0}_id'.format(relation[0])
relation_column(name) == "_" \o name \o "_id"

\* row['name'].startswith('_'), on the column names of the model
startswith_underscore(name) ==
    name \in {relation_column(r) : r \in {"target", "other"}}

Names(s) == {s[i].name : i \in 1..Len(s)}

\* ------------------------------------------------------ the tables
\* a column of a table: 'name TYPE [NOT NULL] [UNIQUE]'
Column(name, type, notnull, unique) ==
    [name |-> name, type |-> type, notnull |-> notnull, unique |-> unique]

\* the columns of CREATE TABLE, the primary key 'id' apart
declared_columns(cls) ==
    [i \in 1..Len(cls._properties) |->
        Column(cls._properties[i].name,
               Base_get_prop_type(cls._properties[i].property_type),
               cls._properties[i].mandatory = TRUE,
               cls._properties[i].unique = TRUE)]
    \o [i \in 1..Len(cls._relations) |->
        Column(relation_column(cls._relations[i][1]), "INTEGER", FALSE, FALSE)]

NoRows == [i \in {} |-> <<>>]
Table(columns) == [columns |-> columns, rows |-> NoRows, sequence |-> 0]

\* ALTER TABLE ... ADD COLUMN: every row gets NULL in the new column
add_column(table, column) ==
    [table EXCEPT
        !.columns = Append(@, column),
        !.rows = [i \in DOMAIN @ |->
                    [n \in (DOMAIN @[i]) \cup {column.name} |->
                        IF n = column.name THEN SqlNull ELSE @[i][n]]]]

RECURSIVE add_columns(_, _)
add_columns(table, columns) ==
    IF columns = <<>> THEN table
    ELSE add_columns(add_column(table, Head(columns)), Tail(columns))

\* a migration that makes the table anew when its columns are not the declared
\* ones (DROP TABLE, CREATE TABLE)
Base_ensure_table_anew(cls, d) ==
    LET t == cls._table
    IN  [db |-> [x \in (DOMAIN d) \cup {t} |->
                    IF x # t THEN d[x]
                    ELSE IF t \in DOMAIN d /\ d[t].columns = declared_columns(cls) THEN d[t]
                    ELSE Table(declared_columns(cls))],
         outcome |-> "ok"]

\* Base._ensure_table, on the database d
Base_ensure_table(cls, d) ==
    LET t == cls._table
        \* CREATE TABLE IF NOT EXISTS
        created == IF t \in DOMAIN d THEN d
                   ELSE [x \in (DOMAIN d) \cup {t} |->
                            IF x = t THEN Table(declared_columns(cls)) ELSE d[x]]
        \* PRAGMA table_info: 'id' and the columns
        names == {"id"} \cup Names(created[t].columns)
        current_relations == {n \in names : startswith_underscore(n)}
        current_properties == {n \in names : ~startswith_underscore(n)}
        relation_list == [i \in 1..Len(cls._relations) |->
                             relation_column(cls._relations[i][1])]
        missing == SelectSeq(relation_list, LAMBDA n : n \notin current_relations)
    IN  IF \E i \in 1..Len(cls._properties) :
               cls._properties[i].name \notin current_properties
        \* 'ALTER TABLE {0} ADD COLUMN {1} {2} {3} {4}}'.format(...): the
        \* single '}' of the format string makes format raise
        THEN [db |-> created, outcome |-> "ValueError"]
        ELSE [db |-> [created EXCEPT ![t] = add_columns(@,
                         [i \in 1..Len(missing) |-> Column(missing[i], "INTEGER", FALSE, FALSE)])],
              outcome |-> "ok"]

\* ------------------------------------------------------ the instances
\* the entity instances a run makes
Refs == {"o1", "o2"}
\* the reference of the next instance made
new_ref == "o" \o ToString(Cardinality(DOMAIN objects) + 1)

\* the attributes __init__ sets on an instance
Instance(class, id, props, rels) ==
    [class |-> class, id |-> id, props |-> props, rels |-> rels]

\* {'id': ..., 'object': ...}: the reference cell of a relation
Cell(id, object) == [id |-> id, object |-> object]

RelationNames(cls) == {cls._relations[i][1] : i \in 1..Len(cls._relations)}
RelationClass(cls, name) ==
    (CHOOSE i \in 1..Len(cls._relations) : cls._relations[i][1] = name)
PropertyOf(cls, name) ==
    cls._properties[CHOOSE i \in 1..Len(cls._properties) : cls._properties[i].name = name]

\* RelationMapper.load_foreign_relations(cls): the relations of other classes
\* that point at cls, {accessor: {'class': ..., 'key': ...}}
load_foreign_relations(c) ==
    UNION {{[accessor |-> "owners", class |-> x, key |-> classes[x]._relations[i][1]] :
               i \in {j \in 1..Len(classes[x]._relations) : classes[x]._relations[j][2] = c}} :
           x \in (DOMAIN classes) \ {c}}

\* the record of a call on the entities, before it is filled in
DCall(op) ==
    [op |-> op, ref |-> None, cls |-> None, identifier |-> PyNone, name |-> None,
     value |-> PyNone, target |-> None, outcome |-> "ok", result |-> None,
     entries |-> <<>>, selects |-> 0]

\* cursor.fetchone() of 'SELECT * FROM table WHERE id=?'
has_row(table, identifier) ==
    identifier.type = "int" /\ identifier.v \in DOMAIN table.rows

\* an __init__ that gives a blank instance when the row is missing
construct_blank(c, identifier, d) ==
    LET cls == classes[c]
        e == Base_ensure_table(cls, d)
    IN  IF e.outcome # "ok"
        THEN [db |-> e.db, outcome |-> e.outcome, object |-> <<>>, selects |-> 0]
        ELSE IF identifier # PyNone /\ has_row(e.db[cls._table], identifier)
        THEN LET row == e.db[cls._table].rows[identifier.v]
             IN  [db |-> e.db, outcome |-> "ok", selects |-> 1,
                  object |-> Instance(c, identifier,
                      [n \in Names(cls._properties) |->
                          Base_deserialize(PropertyOf(cls, n).property_type, row[n])],
                      [r \in RelationNames(cls) |->
                          Cell(fetched(row[relation_column(r)]), None)])]
        ELSE [db |-> e.db, outcome |-> "ok",
              selects |-> IF identifier # PyNone THEN 1 ELSE 0,
              object |-> Instance(c, identifier,
                  [n \in Names(cls._properties) |-> PyNone],
                  [r \in RelationNames(cls) |-> Cell(PyNone, None)])]

\* an __init__ that also reads the row of every related entity its row names
construct_eager(c, identifier, d) ==
    LET cls == classes[c]
        e == Base_ensure_table(cls, d)
    IN  IF e.outcome # "ok"
        THEN [db |-> e.db, outcome |-> e.outcome, object |-> <<>>, selects |-> 0]
        ELSE IF identifier # PyNone
        THEN IF ~has_row(e.db[cls._table], identifier)
             THEN [db |-> e.db, outcome |-> "ObjectNotFoundException",
                   object |-> <<>>, selects |-> 1]
             ELSE LET row == e.db[cls._table].rows[identifier.v]
                  IN  [db |-> e.db, outcome |-> "ok",
                       selects |-> 1 + Cardinality({r \in RelationNames(cls) :
                                                      row[relation_column(r)] # SqlNull}),
                       object |-> Instance(c, identifier,
                           [n \in Names(cls._properties) |->
                               Base_deserialize(PropertyOf(cls, n).property_type, row[n])],
                           [r \in RelationNames(cls) |->
                               Cell(fetched(row[relation_column(r)]), None)])]
        ELSE [db |-> e.db, outcome |-> "ok", selects |-> 0,
              object |-> Instance(c, PyNone,
                  [n \in Names(cls._properties) |-> PyNone],
                  [r \in RelationNames(cls) |-> Cell(PyNone, None)])]

\* Base.__init__(identifier) of class c on the database d: the database
\* afterwards, the outcome and the attributes of the instance
construct(c, identifier, d) ==
    LET cls == classes[c]
        e == Base_ensure_table(cls, d)
    IN  IF e.outcome # "ok"
        THEN [db |-> e.db, outcome |-> e.outcome, object |-> <<>>, selects |-> 0]
        ELSE IF identifier # PyNone
        THEN IF ~has_row(e.db[cls._table], identifier)
             THEN [db |-> e.db, outcome |-> "ObjectNotFoundException",
                   object |-> <<>>, selects |-> 1]
             ELSE LET row == e.db[cls._table].rows[identifier.v]
                  IN  [db |-> e.db, outcome |-> "ok", selects |-> 1,
                       object |-> Instance(c, identifier,
                           [n \in Names(cls._properties) |->
                               Base_deserialize(PropertyOf(cls, n).property_type, row[n])],
                           [r \in RelationNames(cls) |->
                               Cell(fetched(row[relation_column(r)]), None)])]
        ELSE [db |-> e.db, outcome |-> "ok", selects |-> 0,
              object |-> Instance(c, PyNone,
                  [n \in Names(cls._properties) |-> PyNone],
                  [r \in RelationNames(cls) |-> Cell(PyNone, None)])]

\* objects with one more instance
allocated(object) ==
    [x \in (DOMAIN objects) \cup {new_ref} |->
        IF x = new_ref THEN object ELSE objects[x]]

\* cls(identifier)
Base_init(c, identifier) ==
    /\ LET r == construct(c, identifier, db)
       IN  /\ r.outcome = "ok" => DOMAIN objects # Refs
           /\ db' = r.db
           /\ objects' = IF r.outcome = "ok" THEN allocated(r.object) ELSE objects
           /\ dlast' = [DCall("__init__") EXCEPT
                          !.cls = c, !.identifier = identifier,
                          !.outcome = r.outcome, !.selects = r.selects,
                          !.result = IF r.outcome = "ok" THEN new_ref ELSE None]
    /\ UNCHANGED classes

\* an attribute set that writes the column of the row at once
setattr_saving(o, name, value) ==
    LET t == classes[objects[o].class]._table
        prop == PropertyOf(classes[objects[o].class], name)
    IN  /\ objects' = [objects EXCEPT ![o].props[name] = value]
        /\ db' = IF has_row(db[t], objects[o].id)
                 THEN [db EXCEPT ![t].rows[objects[o].id.v][name] =
                          Base_serialize(prop.property_type, value)]
                 ELSE db
        /\ dlast' = [DCall("setattr") EXCEPT !.ref = o, !.name = name, !.value = value]
        /\ UNCHANGED classes

\* instance.name = value, on a scalar property
setattr(o, name, value) ==
    /\ objects' = [objects EXCEPT ![o].props[name] = value]
    /\ dlast' = [DCall("setattr") EXCEPT !.ref = o, !.name = name, !.value = value]
    /\ UNCHANGED <<classes, db>>

\* a getter that loads the related instance and does not keep it
Base_get_relation_uncached(o, name) ==
    LET data == objects[o].rels[name]
        cls == classes[objects[o].class]
        call == [DCall("_get_relation") EXCEPT !.ref = o, !.name = name]
    IN  /\ IF data.id # PyNone
           THEN LET r == construct(cls._relations[RelationClass(cls, name)][2], data.id, db)
                IN  /\ r.outcome = "ok" => DOMAIN objects # Refs
                    /\ db' = r.db
                    /\ objects' = IF r.outcome = "ok" THEN allocated(r.object) ELSE objects
                    /\ dlast' = [call EXCEPT
                                   !.outcome = r.outcome, !.selects = r.selects,
                                   !.result = IF r.outcome = "ok" THEN new_ref ELSE None]
           ELSE /\ dlast' = [call EXCEPT !.result = data.object]
                /\ UNCHANGED <<db, objects>>
        /\ UNCHANGED classes

\* Base._get_relation
Base_get_relation(o, name) ==
    LET data == objects[o].rels[name]
        cls == classes[objects[o].class]
        call == [DCall("_get_relation") EXCEPT !.ref = o, !.name = name]
    IN  /\ IF data.object = None /\ data.id # PyNone
           THEN LET r == construct(cls._relations[RelationClass(cls, name)][2], data.id, db)
                IN  /\ r.outcome = "ok" => DOMAIN objects # Refs
                    /\ db' = r.db
                    /\ objects' =
                            IF r.outcome = "ok"
                            THEN [allocated(r.object) EXCEPT ![o].rels[name].object = new_ref]
                            ELSE objects
                    /\ dlast' = [call EXCEPT
                                   !.outcome = r.outcome, !.selects = r.selects,
                                   !.result = IF r.outcome = "ok" THEN new_ref ELSE None]
           ELSE /\ dlast' = [call EXCEPT !.result = data.object]
                /\ UNCHANGED <<db, objects>>
        /\ UNCHANGED classes

\* a setter that keeps the identifier of the instance and not the instance
Base_set_relation_id(o, name, value) ==
    LET call == [DCall("_set_relation") EXCEPT !.ref = o, !.name = name, !.target = value]
    IN  /\ IF value = None
           THEN /\ objects' = [objects EXCEPT ![o].rels[name] = Cell(PyNone, None)]
                /\ dlast' = call
           ELSE IF value \notin DOMAIN objects
           THEN /\ dlast' = [call EXCEPT !.outcome = "AttributeError"]
                /\ UNCHANGED objects
           ELSE /\ objects' = [objects EXCEPT ![o].rels[name] = Cell(objects[value].id, None)]
                /\ dlast' = call
        /\ UNCHANGED <<classes, db>>

\* Base._set_relation; value is None, an instance, or something that is no
\* instance (it has no attribute id)
Base_set_relation(o, name, value) ==
    LET call == [DCall("_set_relation") EXCEPT !.ref = o, !.name = name, !.target = value]
    IN  /\ IF value = None
           THEN /\ objects' = [objects EXCEPT ![o].rels[name] = Cell(PyNone, None)]
                /\ dlast' = call
           ELSE IF value \notin DOMAIN objects
           THEN /\ dlast' = [call EXCEPT !.outcome = "AttributeError"]
                /\ UNCHANGED objects
           ELSE /\ objects' = [objects EXCEPT ![o].rels[name] = Cell(objects[value].id, value)]
                /\ dlast' = call
        /\ UNCHANGED <<classes, db>>

\* the values of a save that serializes every property, None or not
prop_values_serialized(o) ==
    LET cls == classes[objects[o].class]
    IN  [n \in Names(cls._properties) \cup {relation_column(r) : r \in RelationNames(cls)} |->
            IF n \in Names(cls._properties)
            THEN Base_serialize(PropertyOf(cls, n).property_type, objects[o].props[n])
            ELSE bind(objects[o].rels[CHOOSE r \in RelationNames(cls) : relation_column(r) = n].id)]

\* the values save hands to its statement, by column
prop_values(o) ==
    LET cls == classes[objects[o].class]
    IN  [n \in Names(cls._properties) \cup {relation_column(r) : r \in RelationNames(cls)} |->
            IF n \in Names(cls._properties)
            THEN LET prop == PropertyOf(cls, n)
                     data == objects[o].props[n]
                 IN  IF prop.property_type = None /\ prop.mandatory = TRUE /\ data = PyNone
                     THEN SqlNull
                     ELSE Base_serialize(prop.property_type, data)
            ELSE bind(objects[o].rels[CHOOSE r \in RelationNames(cls) : relation_column(r) = n].id)]

\* the row a statement writes: the columns it does not name are NULL in a new
\* row and keep their value in an updated one
written(table, values, old) ==
    [n \in Names(table.columns) |->
        IF n \in DOMAIN values THEN values[n]
        ELSE IF n \in DOMAIN old THEN old[n] ELSE SqlNull]

\* the NOT NULL and UNIQUE constraints of the table, on the row of id
violates(table, row, id) ==
    \E i \in 1..Len(table.columns) :
        LET column == table.columns[i]
        IN  \/ column.notnull /\ row[column.name] = SqlNull
            \/ /\ column.unique
               /\ row[column.name] # SqlNull
               /\ \E j \in DOMAIN table.rows :
                     j # id /\ table.rows[j][column.name] = row[column.name]

\* a save that inserts a row every time, whatever self.id
Base_save_insert(o) ==
    LET cls == classes[objects[o].class]
        table == db[cls._table]
        id == table.sequence + 1
        row == written(table, prop_values(o), <<>>)
    IN  /\ table.sequence < MaxId
        /\ db' = [db EXCEPT ![cls._table].rows =
                     [x \in (DOMAIN @) \cup {id} |-> IF x = id THEN row ELSE @[x]],
                  ![cls._table].sequence = id]
        /\ objects' = [objects EXCEPT ![o].id = PyInt(id)]
        /\ dlast' = [DCall("save") EXCEPT !.ref = o, !.identifier = objects[o].id]
        /\ UNCHANGED classes

\* a save whose UPDATE names the property columns and no relation column
Base_save_props(o) ==
    LET cls == classes[objects[o].class]
        table == db[cls._table]
        values == [n \in Names(cls._properties) |-> prop_values(o)[n]]
    IN  /\ objects[o].id # PyNone
        /\ has_row(table, objects[o].id)
        /\ db' = [db EXCEPT ![cls._table].rows[objects[o].id.v] =
                     written(table, values, table.rows[objects[o].id.v])]
        /\ dlast' = [DCall("save") EXCEPT !.ref = o, !.identifier = objects[o].id]
        /\ UNCHANGED <<classes, objects>>

\* a save that writes the row of self.id when the table has none
\* (INSERT OR REPLACE)
Base_save_upsert(o) ==
    LET cls == classes[objects[o].class]
        table == db[cls._table]
        id == IF objects[o].id = PyNone THEN table.sequence + 1 ELSE objects[o].id.v
        row == written(table, prop_values(o), <<>>)
    IN  /\ id <= MaxId
        /\ db' = [db EXCEPT ![cls._table].rows =
                     [x \in (DOMAIN @) \cup {id} |-> IF x = id THEN row ELSE @[x]],
                  ![cls._table].sequence = IF id > @ THEN id ELSE @]
        /\ objects' = [objects EXCEPT ![o].id = PyInt(id)]
        /\ dlast' = [DCall("save") EXCEPT !.ref = o, !.identifier = objects[o].id]
        /\ UNCHANGED classes

\* Base.save
Base_save(o) ==
    LET cls == classes[objects[o].class]
        table == db[cls._table]
        call == [DCall("save") EXCEPT !.ref = o, !.identifier = objects[o].id]
    IN  /\ IF objects[o].id = PyNone
           THEN \* INSERT INTO table(...) VALUES (...); self.id = cursor.lastrowid
                LET id == table.sequence + 1
                    row == written(table, prop_values(o), <<>>)
                IN  /\ table.sequence < MaxId
                    /\ IF violates(table, row, id)
                       THEN /\ dlast' = [call EXCEPT !.outcome = "IntegrityError"]
                            /\ UNCHANGED <<db, objects>>
                       ELSE /\ db' = [db EXCEPT ![cls._table].rows =
                                        [x \in (DOMAIN @) \cup {id} |->
                                            IF x = id THEN row ELSE @[x]],
                                      ![cls._table].sequence = id]
                            /\ objects' = [objects EXCEPT ![o].id = PyInt(id)]
                            /\ dlast' = call
           ELSE \* UPDATE table SET ... WHERE id=? LIMIT 1
                IF has_row(table, objects[o].id)
                THEN LET id == objects[o].id.v
                         row == written(table, prop_values(o), table.rows[id])
                     IN  IF violates(table, row, id)
                         THEN /\ dlast' = [call EXCEPT !.outcome = "IntegrityError"]
                              /\ UNCHANGED <<db, objects>>
                         ELSE /\ db' = [db EXCEPT ![cls._table].rows[id] = row]
                              /\ dlast' = call
                              /\ UNCHANGED objects
                ELSE /\ dlast' = call
                     /\ UNCHANGED <<db, objects>>
        /\ UNCHANGED classes

\* a delete that also clears the foreign identifier of the rows that point at
\* the deleted one
Base_delete_cascade(o) ==
    LET cls == classes[objects[o].class]
        gone == [db EXCEPT ![cls._table].rows =
                    [x \in (DOMAIN @) \ {objects[o].id.v} |-> @[x]]]
    IN  /\ db' = IF has_row(db[cls._table], objects[o].id)
                 THEN [t \in DOMAIN gone |->
                         [gone[t] EXCEPT !.rows =
                             [x \in DOMAIN @ |->
                                 [n \in DOMAIN @[x] |->
                                     IF startswith_underscore(n) /\ @[x][n] = bind(objects[o].id)
                                     THEN SqlNull ELSE @[x][n]]]]]
                 ELSE db
        /\ dlast' = [DCall("delete") EXCEPT !.ref = o]
        /\ UNCHANGED <<classes, objects>>

\* Base.delete
Base_delete(o) ==
    LET cls == classes[objects[o].class]
        table == db[cls._table]
    IN  /\ db' = IF has_row(table, objects[o].id)
                 THEN [db EXCEPT ![cls._table].rows =
                          [x \in (DOMAIN @) \ {objects[o].id.v} |-> @[x]]]
                 ELSE db
        /\ dlast' = [DCall("delete") EXCEPT !.ref = o]
        /\ UNCHANGED <<classes, objects>>

\* the identifiers of a set in ascending order, as SELECT hands out the rows
RECURSIVE ascending(_)
ascending(S) ==
    IF S = {} THEN <<>>
    ELSE LET least == CHOOSE i \in S : \A j \in S : i <= j
         IN  <<least>> \o ascending(S \ {least})

\* a reverse accessor that returns every row of the remote table
Base_get_foreign_relation_all(o, relation_info) ==
    LET remote_class == classes[relation_info.class]
        e == Base_ensure_table(remote_class, db)
        ids == ascending(DOMAIN e.db[remote_class._table].rows)
    IN  /\ db' = e.db
        /\ dlast' = [DCall("_get_foreign_relation") EXCEPT
                       !.ref = o,
                       !.selects = Len(ids),
                       !.entries = [i \in 1..Len(ids) |->
                                      construct(relation_info.class, PyInt(ids[i]), e.db).object]]
        /\ UNCHANGED <<classes, objects>>

\* a reverse accessor that hands out again what the same instance got from
\* its access one or two calls before
Base_get_foreign_relation_cached(o, relation_info) ==
    LET call == [DCall("_get_foreign_relation") EXCEPT !.ref = o]
        calls == trail \o <<dlast>>
        earlier == {i \in 1..Len(calls) :
                       calls[i].op = "_get_foreign_relation" /\ calls[i].ref = o}
        rows == db[classes[relation_info.class]._table].rows
        ids == ascending({i \in DOMAIN rows :
                   /\ objects[o].id # PyNone
                   /\ rows[i][relation_column(relation_info.key)] = bind(objects[o].id)})
    IN  /\ relation_info.class \in DOMAIN classes
        /\ classes[relation_info.class]._table \in DOMAIN db
        /\ dlast' = IF earlier # {}
                    THEN [call EXCEPT !.entries = calls[CHOOSE i \in earlier : TRUE].entries]
                    ELSE [call EXCEPT
                            !.selects = Len(ids),
                            !.entries = [i \in 1..Len(ids) |->
                                construct(relation_info.class, PyInt(ids[i]), db).object]]
        /\ UNCHANGED <<classes, db, objects>>

\* Base._get_foreign_relation: the instances it returns are not kept by the
\* entity, they are the entries of the call
Base_get_foreign_relation(o, relation_info) ==
    LET remote_class == classes[relation_info.class]
        e == Base_ensure_table(remote_class, db)
        call == [DCall("_get_foreign_relation") EXCEPT !.ref = o]
    IN  IF e.outcome # "ok"
        THEN /\ db' = e.db
             /\ dlast' = [call EXCEPT !.outcome = e.outcome]
             /\ UNCHANGED <<classes, objects>>
        ELSE LET rows == e.db[remote_class._table].rows
                 \* SELECT id FROM table WHERE _key_id=?
                 ids == ascending({i \in DOMAIN rows :
                            /\ objects[o].id # PyNone
                            /\ rows[i][relation_column(relation_info.key)] = bind(objects[o].id)})
             IN  /\ db' = e.db
                 /\ dlast' = [call EXCEPT
                                !.selects = Len(ids),
                                !.entries = [i \in 1..Len(ids) |->
                                    construct(relation_info.class, PyInt(ids[i]), e.db).object]]
                 /\ UNCHANGED <<classes, objects>>

\* ------------------------------------------------------ the entities in use
\* no store client is in use
NoStore ==
    /\ _cluster = [m \in Clients |-> None]
    /\ _lock = [m \in Clients |-> None]
    /\ _data = <<>>
    /\ _sequences = <<>>
    /\ last = <<>>
    /\ recorded = <<>>
    /\ begun = <<>>
    /\ pc = <<>>

storevars == <<_cluster, _lock, _data, _sequences, last, recorded, begun, pc>>

\* class Target(Base): one property; class Owner(Base): one property p of the
\* given type and a relation 'target' to Target
Declarations(property_type, mandatory) ==
    [Target |-> [_table |-> "target",
                 _properties |-> <<Property("name", "str", FALSE, FALSE)>>,
                 _relations |-> <<>>],
     Owner |-> [_table |-> "owner",
                _properties |-> <<Property("p", property_type, FALSE, mandatory)>>,
                _relations |-> << <<"target", "Target">> >>]]

Identifiers == {PyInt(i) : i \in 1..MaxId}

\* main.db as earlier runs left it: the target of identifier 1, and owners
\* that point at it or at nothing, their p as given
Persisted(owners, p) ==
    [target |-> [Table(declared_columns(Declarations("int", FALSE).Target)) EXCEPT
                    !.rows = [i \in {1} |-> [n \in {"name"} |-> SqlNull]],
                    !.sequence = 1],
     owner |-> [Table(declared_columns(Declarations("int", FALSE).Owner)) EXCEPT
                    !.rows = [i \in DOMAIN owners |->
                                [n \in {"p", "_target_id"} |->
                                    IF n = "p" THEN p ELSE owners[i]]],
                    !.sequence = Len(owners)]]

\* Owner.p is an optional int that is left alone; main.db does not exist yet
\* or holds what earlier runs left
InitDal ==
    /\ NoStore
    /\ NoServices
    /\ NoApi
    /\ classes = Declarations("int", FALSE)
    /\ db \in {<<>>} \cup {Persisted(owners, SqlNull) : owners \in [1..(MaxId - 1) -> {SqlNull, SqlInt(1)}]}
    /\ objects = <<>>
    /\ dlast = DCall("import")
    /\ trail = <<>>

Entity(op) == op /\ UNCHANGED storevars /\ UNCHANGED <<trail, mockvars, apivars>>

NextDal ==
    \/ \E c \in DOMAIN classes : Entity(Base_init(c, PyNone))
    \/ \E c \in DOMAIN classes, identifier \in Identifiers : Entity(Base_init(c, identifier))
    \/ \E o \in DOMAIN objects : \E name \in DOMAIN objects[o].rels :
          Entity(Base_get_relation(o, name))
    \/ \E o \in DOMAIN objects : \E name \in DOMAIN objects[o].rels :
          \E value \in {None, "x"} \cup DOMAIN objects :
             Entity(Base_set_relation(o, name, value))
    \/ \E o \in DOMAIN objects : Entity(Base_save(o))
    \/ \E o \in DOMAIN objects : Entity(Base_delete(o))
    \/ \E o \in DOMAIN objects : \E relation_info \in load_foreign_relations(objects[o].class) :
          Entity(Base_get_foreign_relation(o, [class |-> relation_info.class, key |-> relation_info.key]))

SpecDal == InitDal /\ [][NextDal]_vars

\* ------------------------------------------------------ the property types
\* Owner.p is declared with each semantic type, mandatory or not; main.db does
\* not exist yet
InitTypes ==
    /\ NoStore
    /\ NoServices
    /\ NoApi
    /\ classes \in {Declarations(t, m) : t \in PropertyTypes, m \in BOOLEAN}
    /\ db = <<>>
    /\ objects = <<>>
    /\ dlast = DCall("import")
    /\ trail = <<>>

NextTypes ==
    \/ Entity(Base_init("Owner", PyNone))
    \/ \E identifier \in Identifiers : Entity(Base_init("Owner", identifier))
    \/ \E o \in DOMAIN objects :
          \E value \in ValidValues(classes.Owner._properties[1].property_type) \cup {PyNone} :
             Entity(setattr(o, "p", value))
    \/ \E o \in DOMAIN objects : Entity(Base_save(o))

SpecTypes == InitTypes /\ [][NextTypes]_vars

\* ------------------------------------------------------ a new release
\* The tables were made by a release that declared Owner with p and target;
\* this release declares one more property q, or one more relation 'other',
\* or declares p no longer.
Released ==
    {[Declarations("int", FALSE) EXCEPT
        !.Owner._properties = Append(@, Property("q", t, u, m))] :
            t \in PropertyTypes, u \in BOOLEAN, m \in BOOLEAN}
    \cup {[Declarations("int", FALSE) EXCEPT
             !.Owner._relations = Append(@, <<"other", "Target">>)]}
    \cup {[Declarations("int", FALSE) EXCEPT !.Owner._properties = <<>>]}

InitMigration ==
    /\ NoStore
    /\ NoServices
    /\ NoApi
    /\ classes \in Released
    /\ db \in {Persisted(owners, p) : owners \in [1..(MaxId - 1) -> {SqlNull, SqlInt(1)}],
                                      p \in {SqlNull, SqlInt(5)}}
    /\ objects = <<>>
    /\ dlast = DCall("import")
    /\ trail = <<>>

NextMigration ==
    \/ \E c \in DOMAIN classes : Entity(Base_init(c, PyNone))
    \/ \E c \in DOMAIN classes, identifier \in Identifiers : Entity(Base_init(c, identifier))
    \/ \E o \in DOMAIN objects : \E name \in DOMAIN objects[o].rels :
          Entity(Base_get_relation(o, name))
    \/ \E o \in DOMAIN objects : Entity(Base_save(o))
    \/ \E o \in DOMAIN objects : Entity(Base_delete(o))
    \/ \E o \in DOMAIN objects : \E relation_info \in load_foreign_relations(objects[o].class) :
          Entity(Base_get_foreign_relation(o, [class |-> relation_info.class, key |-> relation_info.key]))

SpecMigration == InitMigration /\ [][NextMigration]_vars

\* ------------------------------------------------------ two instances of a row
\* main.db holds the target 1 and the owner 1, which points at it and whose p
\* is 5. The process constructs instances of the two rows, sets attributes
\* and relations, saves, deletes and reads the reverse accessor.
InitHistory ==
    /\ NoStore
    /\ NoServices
    /\ NoApi
    /\ classes = Declarations("int", FALSE)
    /\ db = Persisted(<<SqlInt(1)>>, SqlInt(5))
    /\ objects = <<>>
    /\ dlast = DCall("import")
    /\ trail = <<>>

\* the call is noted in the history
Traced(op) ==
    /\ op
    /\ trail' = IF trail = <<>> THEN <<dlast>> ELSE <<trail[Len(trail)], dlast>>
    /\ UNCHANGED <<storevars, mockvars, apivars>>

Owners == {o \in DOMAIN objects : objects[o].class = "Owner"}
Targets == {o \in DOMAIN objects : objects[o].class = "Target"}

NextHistory ==
    \/ \E c \in DOMAIN classes : Traced(Base_init(c, PyInt(1)))
    \/ \E o \in Owners : \E value \in {PyNone, PyInt(7)} : Traced(setattr(o, "p", value))
    \/ \E o \in Owners : \E value \in {None} \cup Targets :
          Traced(Base_set_relation(o, "target", value))
    \/ \E o \in DOMAIN objects : Traced(Base_save(o))
    \/ \E o \in Owners : Traced(Base_delete(o))
    \/ \E o \in Targets : \E relation_info \in load_foreign_relations(objects[o].class) :
          Traced(Base_get_foreign_relation(o, [class |-> relation_info.class, key |-> relation_info.key]))

SpecHistory == InitHistory /\ [][NextHistory]_vars

\* ------------------------------------------------------ SystemdMock
\* key = 'None' if client is None else client.ip
ClientKeys == {"None", "10.0.0.1"}
\* the service names callers pass: with and without the prefix 'ovs-'
ServiceNames == {"a", "ovs-a", "ovs-b"}

\* the record of a call on SystemdMock, before it is filled in
SCall(op, name, key) ==
    [op |-> op, name |-> name, key |-> key, outcome |-> "ok", result |-> None]

\* SystemdMock._service_exists: name in SystemdMock.services.get(key, {})
SystemdMock_service_exists(name, key) ==
    key \in DOMAIN services /\ name \in DOMAIN services[key]

\* SystemdMock._get_name: the name as given when a service has it, the name
\* with 'ovs-' before it when a service has that, and ValueError otherwise
SystemdMock_get_name(name, key) ==
    IF SystemdMock_service_exists(name, key)
    THEN [name |-> name, outcome |-> "ok"]
    ELSE IF SystemdMock_service_exists("ovs-" \o name, key)
    THEN [name |-> "ovs-" \o name, outcome |-> "ok"]
    ELSE [name |-> "ovs-" \o name, outcome |-> "ValueError"]

\* the value of SystemdMock.has_service: False when _get_name raises
has_service_value(name, key) ==
    LET r == SystemdMock_get_name(name, key)
    IN  r.outcome = "ok" /\ r.name \in DOMAIN services[key]

\* the value of SystemdMock.get_service_status for a name that is found
get_service_status_value(name, key) ==
    IF key \in DOMAIN services /\ name \in DOMAIN services[key]
          /\ services[key][name] = "RUNNING"
    THEN "active" ELSE "inactive"

\* SystemdMock.add_service(name, client): when has_service is False,
\* SystemdMock.services[key] = {name: 'HALTED'}
SystemdMock_add_service(name, key) ==
    /\ services' = IF has_service_value(name, key) THEN services
                   ELSE [k \in (DOMAIN services) \cup {key} |->
                            IF k = key THEN [n \in {name} |-> "HALTED"] ELSE services[k]]
    /\ slast' = SCall("add_service", name, key)

\* SystemdMock.has_service
SystemdMock_has_service(name, key) ==
    /\ slast' = [SCall("has_service", name, key) EXCEPT !.result = has_service_value(name, key)]
    /\ UNCHANGED services

\* SystemdMock.get_service_status: _get_name raises for a name not found
SystemdMock_get_service_status(name, key) ==
    LET r == SystemdMock_get_name(name, key)
    IN  /\ slast' = IF r.outcome # "ok"
                    THEN [SCall("get_service_status", name, key) EXCEPT !.outcome = r.outcome]
                    ELSE [SCall("get_service_status", name, key) EXCEPT
                            !.result = get_service_status_value(r.name, key)]
        /\ UNCHANGED services

\* SystemdMock.start_service and stop_service: the state they set
set_state(op, state, name, key) ==
    LET r == SystemdMock_get_name(name, key)
    IN  IF r.outcome # "ok"
        THEN /\ slast' = [SCall(op, name, key) EXCEPT !.outcome = r.outcome]
             /\ UNCHANGED services
        ELSE /\ services' = [services EXCEPT ![key][r.name] = state]
             /\ slast' = SCall(op, name, key)

SystemdMock_start_service(name, key) == set_state("start_service", "RUNNING", name, key)
SystemdMock_stop_service(name, key) == set_state("stop_service", "HALTED", name, key)

\* SystemdMock.remove_service
SystemdMock_remove_service(name, key) ==
    LET r == SystemdMock_get_name(name, key)
    IN  IF r.outcome # "ok"
        THEN /\ slast' = [SCall("remove_service", name, key) EXCEPT !.outcome = r.outcome]
             /\ UNCHANGED services
        ELSE /\ services' = [services EXCEPT
                                ![key] = [n \in (DOMAIN @) \ {r.name} |-> @[n]]]
             /\ slast' = SCall("remove_service", name, key)

\* SystemdMock._clean
SystemdMock_clean ==
    /\ services' = <<>>
    /\ slast' = SCall("_clean", None, None)

\* no service has been added
InitSystemd ==
    /\ NoStore
    /\ NoEntities
    /\ NoApi
    /\ services = <<>>
    /\ slast = SCall("import", None, None)

Mocked(op) == op /\ UNCHANGED <<storevars, dalvars, apivars>>

NextSystemd ==
    \/ \E name \in ServiceNames, key \in ClientKeys : Mocked(SystemdMock_add_service(name, key))
    \/ \E name \in ServiceNames, key \in ClientKeys : Mocked(SystemdMock_has_service(name, key))
    \/ \E name \in ServiceNames, key \in ClientKeys : Mocked(SystemdMock_get_service_status(name, key))
    \/ \E name \in ServiceNames, key \in ClientKeys : Mocked(SystemdMock_start_service(name, key))
    \/ \E name \in ServiceNames, key \in ClientKeys : Mocked(SystemdMock_stop_service(name, key))
    \/ \E name \in ServiceNames, key \in ClientKeys : Mocked(SystemdMock_remove_service(name, key))
    \/ Mocked(SystemdMock_clean)

SpecSystemd == InitSystemd /\ [][NextSystemd]_vars

\* ------------------------------------------------------ BaseClient
\* the status codes of the responses of the API
Statuses == {200, 401, 403, 404, 500}
\* the status codes of the responses to the token request
TokenStatuses == {200, 401, 500}

\* the token the API hands out next: one it did not hand out last
fresh(token) == IF token = "A" THEN "B" ELSE "A"

\* BaseClient._process: what it raises, "ok" when it returns
BaseClient_process(status, raw_response, overrule_raw) ==
    IF raw_response = TRUE /\ overrule_raw = FALSE THEN "ok"
    ELSE IF 200 <= status /\ status < 300 THEN "ok"
    ELSE IF status \in {401, 403} THEN "HttpForbiddenException"
    ELSE IF status = 404 THEN "HttpNotFoundException"
    ELSE "HttpException"

\* BaseClient._prepare with self._token = token: _connect posts the token
\* request when the client has credentials and no token.  A response that is
\* no success makes _process raise; _connect returns instead when
\* _raw_response is set and the exception is a RuntimeError (runtime: the
\* exception classes are not part of this repository).
BaseClient_prepare(token, last_issued, status, runtime) ==
    IF baseclient.client_id # None /\ token = None
    THEN IF BaseClient_process(status, baseclient._raw_response, TRUE) = "ok"
         THEN [token |-> fresh(last_issued), issued |-> fresh(last_issued),
               connects |-> 1, outcome |-> "ok"]
         ELSE IF baseclient._raw_response = TRUE /\ runtime
         THEN [token |-> None, issued |-> last_issued, connects |-> 1, outcome |-> "ok"]
         ELSE [token |-> None, issued |-> last_issued, connects |-> 1,
               outcome |-> BaseClient_process(status, baseclient._raw_response, TRUE)]
    ELSE [token |-> token, issued |-> last_issued, connects |-> 0, outcome |-> "ok"]

\* self._volatile_client.set(self._key, self._token, 300), when there is a store
cache_token(token, held) == IF baseclient._volatile_client THEN token ELSE held
\* self._volatile_client.delete(self._key), when there is a store
cache_delete(held) == IF baseclient._volatile_client THEN None ELSE held

\* a handler of HttpForbiddenException that tries again every time
may_retry_always(first_connect) == TRUE

\* if first_connect is True: raise
may_retry(first_connect) == first_connect # TRUE

\* the record of a _call
ACall(first_connect, sent, statuses, connects, outcome) ==
    [op |-> "_call", first_connect |-> first_connect, requests |-> Len(sent),
     sent |-> sent, statuses |-> statuses, connects |-> connects, outcome |-> outcome]

\* what _call leaves: self._token, the cache, the token handed out last, the record
Left(token, held, last_issued, call) ==
    [token |-> token, volatile |-> held, issued |-> last_issued, call |-> call]

\* BaseClient._call; status1 and status2 are the responses to the request and
\* to the second request, token1 and token2 those to the token requests
call_result(status1, status2, token1, token2, runtime) ==
    LET raw == baseclient._raw_response
        t0 == IF baseclient._volatile_client THEN volatile ELSE baseclient._token
        first_connect == t0 = None
        p1 == BaseClient_prepare(t0, issued, token1, runtime)
    IN  IF p1.outcome # "ok"
        THEN Left(None, volatile, p1.issued,
                  ACall(first_connect, <<>>, <<>>, p1.connects, p1.outcome))
        ELSE LET held1 == cache_token(p1.token, volatile)
                 o1 == BaseClient_process(status1, raw, FALSE)
             IN  IF o1 = "ok"
                 THEN Left(p1.token, held1, p1.issued,
                           ACall(first_connect, <<p1.token>>, <<status1>>, p1.connects, "ok"))
                 ELSE IF o1 # "HttpForbiddenException" \/ ~may_retry(first_connect)
                 THEN Left(p1.token, cache_delete(held1), p1.issued,
                           ACall(first_connect, <<p1.token>>, <<status1>>, p1.connects, o1))
                 ELSE LET p2 == BaseClient_prepare(None, p1.issued, token2, runtime)
                      IN  IF p2.outcome # "ok"
                          THEN Left(None, cache_delete(held1), p2.issued,
                                    ACall(first_connect, <<p1.token>>, <<status1>>,
                                          p1.connects + p2.connects, p2.outcome))
                          ELSE Left(p2.token, cache_token(p2.token, cache_delete(held1)), p2.issued,
                                    ACall(first_connect, <<p1.token, p2.token>>,
                                          <<status1, status2>>, p1.connects + p2.connects,
                                          BaseClient_process(status2, raw, FALSE)))

BaseClient_call(status1, status2, token1, token2, runtime) ==
    LET r == call_result(status1, status2, token1, token2, runtime)
    IN  /\ baseclient' = [baseclient EXCEPT !._token = r.token]
        /\ volatile' = r.volatile
        /\ issued' = r.issued
        /\ alast' = r.call

\* the entry of the cache store expires (it is set for 300 seconds)
expire ==
    /\ baseclient._volatile_client
    /\ volatile # None
    /\ volatile' = None
    /\ alast' = [alast EXCEPT !.op = "expire"]
    /\ UNCHANGED <<baseclient, issued>>

\* BaseClient(ip, port, credentials, raw_response=..., cache_store=...)
InitApi ==
    /\ NoStore
    /\ NoEntities
    /\ NoServices
    /\ baseclient \in [client_id : {None, "id"}, _raw_response : BOOLEAN,
                        _volatile_client : BOOLEAN, _token : {None}]
    /\ volatile = None
    /\ issued = "A"
    /\ alast = [ACall(TRUE, <<>>, <<>>, 0, "ok") EXCEPT !.op = "__init__"]

Api(op) == op /\ UNCHANGED <<storevars, dalvars, mockvars>>

NextApi ==
    \/ \E status1 \in Statuses, status2 \in Statuses, token1 \in TokenStatuses,
          token2 \in TokenStatuses, runtime \in BOOLEAN :
          Api(BaseClient_call(status1, status2, token1, token2, runtime))
    \/ Api(expire)

SpecApi == InitApi /\ [][NextApi]_vars

\* ------------------------------------------------------------------ claims
OnlyCluster == "c1"
Store == _data[OnlyCluster]
Assertions == {"assert_value", "assert_exists"}

\* C1: when apply_transaction(h) raises and an assertion recorded under h does
\* not hold at commit time, the mapping is the one before the call, and none of
\* the calls recorded under h has been applied: it is the mapping the
\* transaction was begun on.
C1_FailedCommitAppliesNothing ==
    [][(/\ last'.op = "apply_transaction"
        /\ last'.outcome # "ok"
        /\ replay(_data, recorded).raised \in Assertions)
       => (/\ _data' = _data
           /\ _data'[OnlyCluster] = begun.data)]_vars

\* C2: h = begin_transaction(); set(k, v, transaction=h); apply_transaction(h)
\* completes without raising, and afterwards get(k) returns v.
C2_BeginSetApply ==
    (/\ last.op = "apply_transaction"
     /\ Len(recorded) = 1
     /\ recorded[1].op = "set")
    => (/\ recorded[1].outcome = "ok"
        /\ last.outcome = "ok"
        /\ recorded[1].key \in DOMAIN Store
        /\ Store[recorded[1].key] = recorded[1].value)

\* C3: a set, delete, assert_value or assert_exists called with transaction=h
\* does not change the live mapping, so a read made afterwards returns what it
\* would have returned without that call.
C3_TransactionCallsLeaveMapping ==
    [][(/\ last'.op \in {"set", "delete", "assert_value", "assert_exists"}
        /\ last'.transaction # None)
       => _data' = _data]_vars

\* a set of an absent key was called with a handle begin_transaction returned,
\* and the key is still absent
C3_Witness ==
    /\ last.op = "set"
    /\ last.transaction \in BegunHandles
    /\ last.key \notin DOMAIN Store

\* C4: when no recorded call raises, apply_transaction(h) leaves the mapping
\* that making h's recorded calls one by one, in the order they were recorded,
\* gives on the mapping of the moment the commit started.
C4_CommitAppliesInOrder ==
    [][(/\ last'.op = "apply_transaction"
        /\ replay(_data, recorded).outcome = "ok")
       => _data' = replay(_data, recorded).data]_vars

\* thread t is inside the read-modify-write of a decorated method
InOperation(t) == pc[t].at \in {"locked", "checked"}

\* C5: apply_transaction runs as one critical section: while a thread is inside
\* it, no other thread executes a step of a store operation through the same
\* client object.
C5_CommitIsOneCriticalSection ==
    [][\A t \in Threads, u \in Threads :
          (/\ t # u
           /\ pc[t].at \in {"applying", "replaying"}
           /\ pc'[t] = pc[t]
           /\ pc'[u] # pc[u])
          => (IF pc[u].at = "idle" THEN pc'[u].call.client ELSE pc[u].call.client)
               # pc[t].call.client]_vars

\* C6: the read-modify-write sequences of two public operations on one
\* cluster's data never overlap, also when the two threads use two client
\* objects constructed for the same cluster name.
C6_MutualExclusion ==
    \A t \in Threads, u \in Threads :
        (/\ t # u
         /\ InOperation(t)
         /\ InOperation(u))
        => _cluster[pc[t].call.client] # _cluster[pc[u].call.client]

\* C7: changing in place a value obtained from get, get_multi or prefix_entries
\* never changes the mapping, so never what a later get(k) returns.
C7_ReadsHandOutCopies ==
    [][last'.op = "mutate" => _data' = _data]_vars

\* C8: delete(k) without a transaction removes a present k and keeps every
\* other key's value; for an absent k it leaves the mapping unchanged, raising
\* ArakoonNotFound when must_exist is true and returning when it is false.
C8_Delete ==
    [][(last'.op = "delete" /\ last'.transaction = None)
       => LET c == _cluster[last'.client]
              k == last'.key
          IN  IF k \in DOMAIN _data[c]
              THEN /\ last'.outcome = "ok"
                   /\ DOMAIN _data'[c] = (DOMAIN _data[c]) \ {k}
                   /\ \A x \in DOMAIN _data'[c] : _data'[c][x] = _data[c][x]
              ELSE /\ _data' = _data
                   /\ last'.outcome = IF last'.must_exist THEN "ArakoonNotFound" ELSE "ok"]_vars

\* delete(k, must_exist=True) returned: k was there, is gone, and another key
\* is still there
C8_Witness ==
    /\ last.op = "delete"
    /\ last.transaction = None
    /\ last.must_exist
    /\ last.outcome = "ok"
    /\ last.key \notin DOMAIN Store
    /\ DOMAIN Store # {}

\* k starts with p: p is k cut after some number of characters
StartsWith(k, p) == \E n \in 0..Len(k) : p = [i \in 1..n |-> k[i]]

\* C9: prefix(p) returns exactly the keys of the mapping that start with p, each
\* once; prefix_entries(p) returns those keys, each with its stored value.
C9_PrefixScan ==
    last.op \in {"prefix", "prefix_entries"}
    => LET d == _data[_cluster[last.client]]
           want == {k \in DOMAIN d : StartsWith(k, last.prefix)}
       IN  /\ {last.rkeys[i] : i \in 1..Len(last.rkeys)} = want
           /\ Len(last.rkeys) = Cardinality(want)
           /\ last.op = "prefix_entries"
              => /\ Len(last.rvalues) = Len(last.rkeys)
                 /\ \A i \in 1..Len(last.rkeys) : last.rvalues[i] = d[last.rkeys[i]]

\* prefix_entries("a") on a mapping of three keys returned two of them
C9_Witness ==
    /\ last.op = "prefix_entries"
    /\ last.prefix = <<"a">>
    /\ Len(last.rkeys) = 2
    /\ Cardinality(DOMAIN Store) = 3

\* C10: an assert_value or assert_exists recorded alone in a transaction and
\* committed raises ArakoonNotFound exactly when the same assertion called
\* without a transaction raises it in that store state, and the mapping is
\* left unchanged.
C10_AssertionInOrOutOfTransaction ==
    (/\ last.op = "apply_transaction"
     /\ Len(recorded) = 1
     /\ recorded[1].op \in Assertions)
    => (/\ (last.outcome = "ArakoonNotFound")
            <=> (direct(_data, recorded[1]).outcome = "ArakoonNotFound")
        /\ Store = begun.data)

\* C11: when an assertion recorded under h is the first recorded call that
\* fails at commit time, apply_transaction(h) raises ArakoonNotFound and the
\* mapping is the one the recorded calls before the assertion produce: no
\* call recorded after the assertion has run.
C11_FailedAssertionAbortsTheRest ==
    [][(/\ last'.op = "apply_transaction"
        /\ \A i \in 1..Len(recorded) : recorded[i].op # "delete_prefix"
        /\ replay(_data, recorded).raised \in Assertions)
       => (/\ last'.outcome = "ArakoonNotFound"
           /\ _data' = replay(_data, recorded).data)]_vars


\* C21: delete_prefix(p, transaction=h) removes no key from the live mapping
\* when it is called.
C21_DeletePrefixIsBuffered ==
    [][(last'.op = "delete_prefix" /\ last'.transaction # None)
       => _data' = _data]_vars

\* C22: after h = begin_transaction(), calls set(k, v, transaction=h) and
\* apply_transaction(h), the value stored for the key of the last set is the
\* value that set was called with.
C22_CommittedSetStoresTheValueOfTheCall ==
    (/\ last.op = "apply_transaction"
     /\ recorded # <<>>
     /\ \A i \in 1..Len(recorded) : recorded[i].op = "set")
    => LET call == recorded[Len(recorded)]
       IN  /\ call.key \in DOMAIN Store
           /\ Store[call.key] = call.value

\* the number of keys of the list before its first absent key
Leading(data, keys) ==
    CHOOSE n \in 0..Len(keys) :
        /\ \A i \in 1..n : keys[i] \in DOMAIN data
        /\ n < Len(keys) => keys[n + 1] \notin DOMAIN data

\* C23: get_multi(keys, must_exist=True) yields the stored values of the keys
\* before the first absent key, in the order of keys, and then raises
\* ArakoonNotFound; when no key is absent it yields one value per key and ends.
C23_GetMultiUpToFirstAbsentKey ==
    (last.op = "get_multi" /\ last.must_exist)
    => LET data == _data[_cluster[last.client]]
           n == Leading(data, last.keys)
       IN  /\ Len(last.rvalues) = n
           /\ \A i \in 1..n : last.rvalues[i] = data[last.keys[i]]
           /\ last.outcome = IF n = Len(last.keys) THEN "ok" ELSE "ArakoonNotFound"

\* the first key is present and the second is absent: one value, then the error
C23_Witness ==
    /\ last.op = "get_multi"
    /\ last.must_exist
    /\ Len(last.keys) = 2
    /\ Len(last.rvalues) = 1
    /\ last.outcome = "ArakoonNotFound"
    /\ last.keys[2] \notin DOMAIN Store

\* C24: get_multi(keys, must_exist=False) does not raise, also when a key of
\* keys is absent.
C24_MustExistFalseDoesNotRaise ==
    (last.op = "get_multi" /\ ~last.must_exist) => last.outcome = "ok"

\* C25: delete_prefix(p) without a transaction does not raise; afterwards the
\* mapping holds the keys that do not start with p, with the values they had,
\* and no key that starts with p.
C25_DeletePrefix ==
    [][(last'.op = "delete_prefix" /\ last'.transaction = None)
       => LET c == _cluster[last'.client]
              kept == {k \in DOMAIN _data[c] : ~StartsWith(k, last'.prefix)}
          IN  /\ last'.outcome = "ok"
              /\ DOMAIN _data'[c] = kept
              /\ \A k \in kept : _data'[c][k] = _data[c][k]
              /\ \A x \in (DOMAIN _data) \ {c} : _data'[x] = _data[x]]_vars

\* delete_prefix("a") left the one key that does not start with "a"
C25_Witness ==
    /\ last.op = "delete_prefix"
    /\ last.transaction = None
    /\ last.prefix = <<"a">>
    /\ DOMAIN Store = {<<"b", "1">>}

\* C26 as stated: without a transaction assert_value(k, v) raises
\* ArakoonNotFound exactly when k is absent or the stored value of k is not v,
\* and assert_exists(k) exactly when k is absent.
C26_AssertionsCompareValues ==
    /\ (last.op = "assert_value" /\ last.transaction = None)
       => ((last.outcome = "ArakoonNotFound")
           <=> (last.key \notin DOMAIN Store \/ Store[last.key] # last.value))
    /\ (last.op = "assert_exists" /\ last.transaction = None)
       => ((last.outcome = "ArakoonNotFound") <=> last.key \notin DOMAIN Store)

\* the items of a value written as JSON: a list and a tuple are both an array
Written(value) ==
    <<IF value.type \in {"list", "tuple"} THEN "array" ELSE value.type, value.items>>

\* C26, amended: without a transaction assert_value(k, v) raises
\* ArakoonNotFound exactly when k is absent or the JSON text of the stored
\* value is not the JSON text of v, and assert_exists(k) exactly when k is
\* absent; neither changes the mapping or raises anything else.
C26_AssertionsCompareJson ==
    [][(last'.op \in Assertions /\ last'.transaction = None)
       => LET data == _data[_cluster[last'.client]]
              fails == \/ last'.key \notin DOMAIN data
                       \/ /\ last'.op = "assert_value"
                          /\ Written(data[last'.key]) # Written(last'.value)
          IN  /\ last'.outcome = IF fails THEN "ArakoonNotFound" ELSE "ok"
              /\ _data' = _data]_vars

\* assert_value with a list passed on a stored tuple of the same items
C26_Witness ==
    /\ last.op = "assert_value"
    /\ last.transaction = None
    /\ last.outcome = "ok"
    /\ last.key \in DOMAIN Store
    /\ Store[last.key].type = "tuple"
    /\ last.value.type = "list"

\* C27: get, get_multi, prefix, prefix_entries, exists, nop, and assert_value
\* and assert_exists without a transaction change neither the mapping nor a
\* transaction buffer, whether they return or raise.
C27_ReadsChangeNothing ==
    [][(\/ last'.op \in {"get", "get_multi", "prefix", "prefix_entries", "exists", "nop"}
        \/ last'.op \in Assertions /\ last'.transaction = None)
       => (_data' = _data /\ _sequences' = _sequences)]_vars

\* a get raised on a mapping that holds other keys, with a transaction begun
C27_Witness ==
    /\ last.op = "get"
    /\ last.outcome = "ArakoonNotFound"
    /\ DOMAIN Store # {}
    /\ BegunHandles # {}

\* ---------------------------------------------------------- claims on Base
TableOf(o) == classes[objects[o].class]._table
\* the rows of table t in d with the row i left out
Without(d, t, i) == [d EXCEPT ![t].rows = [x \in (DOMAIN @) \ {i} |-> @[x]]]

\* C12: a save that completes on an instance whose id is None adds exactly one
\* row, under an identifier no row had, and sets id to it; a save on an
\* instance whose row exists keeps id, adds no row and writes the instance's
\* values to that row; no other row changes.
C12_SaveInsertsOnceThenUpdates ==
    [][(dlast'.op = "save" /\ dlast'.outcome = "ok")
       => LET o == dlast'.ref
              t == TableOf(o)
          IN  IF objects[o].id = PyNone
              THEN /\ objects'[o].id # PyNone
                   /\ objects'[o].id.v \notin DOMAIN db[t].rows
                   /\ DOMAIN db'[t].rows = (DOMAIN db[t].rows) \cup {objects'[o].id.v}
                   /\ Without(db', t, objects'[o].id.v) = [db EXCEPT ![t].sequence = db'[t].sequence]
                   /\ \A n \in DOMAIN prop_values(o) :
                         db'[t].rows[objects'[o].id.v][n] = prop_values(o)[n]
              ELSE has_row(db[t], objects[o].id)
                   => /\ objects'[o].id = objects[o].id
                      /\ DOMAIN db'[t].rows = DOMAIN db[t].rows
                      /\ Without(db', t, objects[o].id.v) = Without(db, t, objects[o].id.v)
                      /\ \A n \in DOMAIN prop_values(o) :
                            db'[t].rows[objects[o].id.v][n] = prop_values(o)[n]]_vars

\* an owner that had an identifier was saved with its relation set: the table
\* holds two owners and the row of this one points at the target
C12_Witness ==
    /\ dlast.op = "save"
    /\ dlast.identifier # PyNone
    /\ objects[dlast.ref].class = "Owner"
    /\ Cardinality(DOMAIN db.owner.rows) = 2
    /\ db.owner.rows[dlast.identifier.v]["_target_id"] = SqlInt(1)
    /\ db.owner.sequence = 2

\* C14: the reverse accessor of a target returns one instance for each owner
\* row whose foreign identifier is the target's identifier, and no other: as
\* many entries as such rows, with the same set of identifiers.
C14_ReverseAccessorComplete ==
    (dlast.op = "_get_foreign_relation" /\ dlast.outcome = "ok")
    => LET id == objects[dlast.ref].id
           pointing == {i \in DOMAIN db.owner.rows :
                           id # PyNone /\ db.owner.rows[i]["_target_id"] = SqlInt(id.v)}
       IN  /\ Len(dlast.entries) = Cardinality(pointing)
           /\ {dlast.entries[i].id.v : i \in 1..Len(dlast.entries)} = pointing

\* two owners point at the target, and the accessor returned two entries
C14_Witness ==
    /\ dlast.op = "_get_foreign_relation"
    /\ Len(dlast.entries) = 2
    /\ objects[dlast.ref].id = PyInt(1)

\* C17: constructing an entity with an identifier that no row of its table has
\* raises ObjectNotFoundException and makes no instance.
C17_MissingRowRaises ==
    [][(/\ dlast'.op = "__init__"
        /\ dlast'.identifier # PyNone
        /\ ~has_row(db'[classes[dlast'.cls]._table], dlast'.identifier))
       => (/\ dlast'.outcome = "ObjectNotFoundException"
           /\ dlast'.result = None
           /\ objects' = objects)]_vars

\* the identifier is one the table handed out: its row was removed by delete
C17_Witness ==
    /\ dlast.op = "__init__"
    /\ dlast.outcome = "ObjectNotFoundException"
    /\ dlast.identifier.v <= db[classes[dlast.cls]._table].sequence

\* C18: delete removes the row of the instance's identifier from its table and
\* changes nothing else, in storage or in any instance; a relation getter that
\* has to load a target whose row is gone raises ObjectNotFoundException.
C18_DeleteDoesNotCascade ==
    [][/\ dlast'.op = "delete"
          => LET o == dlast'.ref
             IN  /\ objects' = objects
                 /\ IF has_row(db[TableOf(o)], objects[o].id)
                    THEN db' = Without(db, TableOf(o), objects[o].id.v)
                    ELSE db' = db
       /\ (/\ dlast'.op = "_get_relation"
           /\ objects[dlast'.ref].rels[dlast'.name].object = None
           /\ objects[dlast'.ref].rels[dlast'.name].id # PyNone
           /\ ~has_row(db'.target, objects[dlast'.ref].rels[dlast'.name].id))
          => (dlast'.outcome = "ObjectNotFoundException" /\ objects' = objects)]_vars

\* the getter of an owner raised for a target that was deleted, and the row of
\* the owner still holds the foreign identifier
C18_Witness ==
    /\ dlast.op = "_get_relation"
    /\ dlast.outcome = "ObjectNotFoundException"
    /\ objects[dlast.ref].id # PyNone
    /\ objects[dlast.ref].rels.target.id = PyInt(1)
    /\ db.target.sequence >= 1
    /\ 1 \notin DOMAIN db.target.rows
    /\ has_row(db.owner, objects[dlast.ref].id)
    /\ db.owner.rows[objects[dlast.ref].id.v]["_target_id"] = SqlInt(1)

\* C19: a relation getter on a cell with a cached object returns that object
\* and reads nothing from storage; on a cell with a foreign identifier and no
\* cached object it loads the target once, caches it in the cell and returns it.
C19_GetterLoadsOnce ==
    [][dlast'.op = "_get_relation"
       => LET cell == objects[dlast'.ref].rels[dlast'.name]
          IN  /\ cell.object # None
                 => /\ dlast'.result = cell.object
                    /\ dlast'.selects = 0
                    /\ objects' = objects
                    /\ db' = db
              /\ (cell.object = None /\ cell.id # PyNone /\ dlast'.outcome = "ok")
                 => /\ dlast'.selects = 1
                    /\ dlast'.result \notin DOMAIN objects
                    /\ objects'[dlast'.result].id = cell.id
                    /\ objects'[dlast'.ref].rels[dlast'.name] = Cell(cell.id, dlast'.result)]_vars

\* a getter returned the cached target of a saved owner without reading storage
C19_Witness ==
    /\ dlast.op = "_get_relation"
    /\ dlast.selects = 0
    /\ dlast.result # None
    /\ objects[dlast.ref].id # PyNone
    /\ objects[dlast.ref].rels.target.id = PyInt(1)

\* C20: assigning to a relation something that is not an instance of the
\* relation's declared class raises ValueError and leaves the reference cell
\* as it was.
C20_WrongTargetTypeRejected ==
    [][(/\ dlast'.op = "_set_relation"
        /\ dlast'.target # None
        /\ \/ dlast'.target \notin DOMAIN objects
           \/ objects[dlast'.target].class # "Target")
       => (dlast'.outcome = "ValueError" /\ objects' = objects)]_vars

\* the declaration of Owner.p
P == classes.Owner._properties[1]

\* C13: after a save that completes on an instance whose value of p is valid
\* for the declared type (or None, when p is not mandatory), constructing the
\* entity with the instance's id gives the same value of p and the same
\* foreign identifier of every relation.
C13_SaveLoadRoundTrip ==
    (/\ dlast.op = "save"
     /\ dlast.outcome = "ok"
     /\ \/ objects[dlast.ref].props.p \in ValidValues(P.property_type)
        \/ objects[dlast.ref].props.p = PyNone /\ P.mandatory = FALSE)
    => LET o == objects[dlast.ref]
           loaded == construct(o.class, o.id, db)
       IN  /\ loaded.outcome = "ok"
           /\ loaded.object.props = o.props
           /\ \A r \in DOMAIN o.rels : loaded.object.rels[r].id = o.rels[r].id

\* C15: a save of an instance whose mandatory property p is None raises the
\* constraint violation of the storage (IntegrityError) and writes nothing,
\* whatever the declared type of p.
C15_MandatoryNullFails ==
    [][(/\ dlast'.op = "save"
        /\ P.mandatory = TRUE
        /\ objects[dlast'.ref].props.p = PyNone)
       => (/\ dlast'.outcome = "IntegrityError"
           /\ db' = db
           /\ objects' = objects)]_vars

\* C16: when the table of a class exists and lacks the column of a declared
\* property, constructing an instance of the class (a new one, or one whose
\* row exists) completes; afterwards the table has the column, every row is
\* kept with its earlier values, and the new column is NULL in it.
C16_MigrationAddsPropertyColumn ==
    [][(/\ dlast'.op = "__init__"
        /\ classes[dlast'.cls]._table \in DOMAIN db
        /\ \E n \in Names(classes[dlast'.cls]._properties) :
              n \notin Names(db[classes[dlast'.cls]._table].columns)
        /\ dlast'.identifier # PyNone
           => has_row(db[classes[dlast'.cls]._table], dlast'.identifier))
       => LET t == classes[dlast'.cls]._table
          IN  /\ dlast'.outcome = "ok"
              /\ Names(classes[dlast'.cls]._properties) \subseteq Names(db'[t].columns)
              /\ DOMAIN db'[t].rows = DOMAIN db[t].rows
              /\ \A i \in DOMAIN db[t].rows :
                    \A n \in DOMAIN db'[t].rows[i] :
                       db'[t].rows[i][n] = IF n \in DOMAIN db[t].rows[i]
                                           THEN db[t].rows[i][n] ELSE SqlNull]_vars

\* the sequence s is the beginning of the sequence t
IsPrefix(s, t) == Len(s) <= Len(t) /\ \A i \in 1..Len(s) : s[i] = t[i]

\* the table of the class has a column for every declared property and relation
UpToDate(cls, d) ==
    /\ cls._table \in DOMAIN d
    /\ Names(declared_columns(cls)) \subseteq Names(d[cls._table].columns)

\* C28: no step drops, renames or reorders a column of a table: the columns a
\* table had are the first columns it has afterwards, declared or not. The
\* migration on a table that has a column for every declared property and
\* relation completes and changes nothing, and constructing an entity of such
\* a class leaves the database as it was.
C28_MigrationAdditiveAndIdempotent ==
    [][/\ \A t \in DOMAIN db :
             /\ t \in DOMAIN db'
             /\ IsPrefix(db[t].columns, db'[t].columns)
       /\ \A c \in DOMAIN classes :
             /\ \A t \in DOMAIN db :
                   IsPrefix(db[t].columns, Base_ensure_table(classes[c], db).db[t].columns)
             /\ UpToDate(classes[c], db)
                => Base_ensure_table(classes[c], db) = [db |-> db, outcome |-> "ok"]
       /\ (dlast'.op = "__init__" /\ UpToDate(classes[dlast'.cls], db))
          => (db' = db /\ dlast'.outcome # "ValueError")]_vars

\* Owner was constructed twice on a table that holds rows and the column p,
\* which Owner declares no longer
C28_Witness ==
    /\ dlast.op = "__init__"
    /\ dlast.outcome = "ok"
    /\ dlast.cls = "Owner"
    /\ Cardinality({o \in DOMAIN objects : objects[o].class = "Owner"}) = 2
    /\ "p" \notin Names(classes.Owner._properties)
    /\ "p" \in Names(db.owner.columns)
    /\ DOMAIN db.owner.rows # {}

\* C29: constructing an entity by identifier reads the row of the entity and
\* no other: it makes one instance, and every reference cell of it holds the
\* foreign identifier of the row and no object; the instances a reverse
\* accessor constructs are the same. The row of a related entity is read when
\* the getter of the relation is called on a cell that holds no object.
C29_ConstructionLoadsNoRelation ==
    [][/\ (dlast'.op = "__init__" /\ dlast'.identifier # PyNone /\ dlast'.outcome = "ok")
          => LET cls == classes[dlast'.cls]
                 row == db'[cls._table].rows[dlast'.identifier.v]
                 made == objects'[dlast'.result]
             IN  /\ dlast'.selects = 1
                 /\ DOMAIN objects' = (DOMAIN objects) \cup {dlast'.result}
                 /\ \A o \in DOMAIN objects : objects'[o] = objects[o]
                 /\ DOMAIN made.rels = RelationNames(cls)
                 /\ \A r \in RelationNames(cls) :
                       /\ made.rels[r].object = None
                       /\ bind(made.rels[r].id) = row[relation_column(r)]
       /\ dlast'.op = "_get_foreign_relation"
          => /\ objects' = objects
             /\ \A i \in 1..Len(dlast'.entries) :
                   \A r \in DOMAIN dlast'.entries[i].rels :
                      dlast'.entries[i].rels[r].object = None
       /\ (/\ dlast'.op = "_get_relation"
           /\ objects[dlast'.ref].rels[dlast'.name].object = None
           /\ objects[dlast'.ref].rels[dlast'.name].id # PyNone)
          => dlast'.selects = 1]_vars

\* an owner whose row points at the target of identifier 1, whose row exists,
\* was constructed: its cell holds 1 and no object, and no target was made
C29_Witness ==
    /\ dlast.op = "__init__"
    /\ dlast.outcome = "ok"
    /\ dlast.cls = "Owner"
    /\ dlast.identifier # PyNone
    /\ objects[dlast.result].rels.target = Cell(PyInt(1), None)
    /\ has_row(db.target, PyInt(1))
    /\ \A o \in DOMAIN objects : objects[o].class = "Owner"

\* C30: a relation setter that completes replaces the cell: by (None, None)
\* when None is assigned, and by (the identifier the assigned instance has at
\* that moment, the instance) otherwise; nothing else changes. A getter that
\* follows the assignment of an instance returns that instance and reads
\* nothing from storage.
C30_SetterReplacesCell ==
    [][/\ (dlast'.op = "_set_relation" /\ dlast'.outcome = "ok")
          => /\ objects' = [objects EXCEPT ![dlast'.ref].rels[dlast'.name] =
                               IF dlast'.target = None THEN Cell(PyNone, None)
                               ELSE Cell(objects[dlast'.target].id, dlast'.target)]
             /\ db' = db
       /\ (/\ dlast.op = "_set_relation"
           /\ dlast.outcome = "ok"
           /\ dlast.target # None
           /\ dlast'.op = "_get_relation"
           /\ dlast'.ref = dlast.ref
           /\ dlast'.name = dlast.name)
          => /\ dlast'.outcome = "ok"
             /\ dlast'.result = dlast.target
             /\ dlast'.selects = 0
             /\ db' = db
             /\ objects' = objects]_vars

\* the getter returned the instance that was assigned, a target that has no
\* identifier and no row; the cell holds no identifier and that instance
C30_Witness ==
    /\ dlast.op = "_get_relation"
    /\ dlast.selects = 0
    /\ dlast.result # None
    /\ objects[dlast.result].id = PyNone
    /\ objects[dlast.result].class = "Target"
    /\ objects[dlast.ref].rels[dlast.name] = Cell(PyNone, dlast.result)

\* C32 as stated: a save that completes on an instance whose property p has no
\* declared type and is None leaves NULL in the column p of the row, whether
\* p is mandatory or not.
C32_UntypedNoneStoredAsNull ==
    (/\ dlast.op = "save"
     /\ dlast.outcome = "ok"
     /\ P.property_type = None
     /\ objects[dlast.ref].props.p = PyNone
     /\ has_row(db.owner, objects[dlast.ref].id))
    => db.owner.rows[objects[dlast.ref].id.v].p = SqlNull

\* C32, amended: save hands NULL for a None of a property without declared
\* type only when the property is mandatory, and the NOT NULL constraint of
\* the column then rejects the statement: IntegrityError, nothing written.
\* When the property is not mandatory save writes the JSON text 'null'.
C32_UntypedNoneNullOnlyWhenMandatory ==
    [][(/\ dlast'.op = "save"
        /\ P.property_type = None
        /\ objects[dlast'.ref].props.p = PyNone
        /\ objects[dlast'.ref].id # PyNone => has_row(db.owner, objects[dlast'.ref].id))
       => IF P.mandatory = TRUE
          THEN /\ prop_values(dlast'.ref).p = SqlNull
               /\ dlast'.outcome = "IntegrityError"
               /\ db' = db
          ELSE /\ dlast'.outcome = "ok"
               /\ db'.owner.rows[objects'[dlast'.ref].id.v].p = SqlText(JsonNull)]_vars

\* a save wrote the text 'null' for an optional property without declared type
C32_Witness ==
    /\ dlast.op = "save"
    /\ dlast.outcome = "ok"
    /\ P.property_type = None
    /\ P.mandatory = FALSE
    /\ objects[dlast.ref].props.p = PyNone
    /\ db.owner.rows[objects[dlast.ref].id.v].p = SqlText(JsonNull)

\* C35: whenever the reference cell of a relation holds an object (of the
\* declared class of the relation), the foreign identifier of the cell is the
\* identifier that object has.
C35_CellIdIsObjectId ==
    \A o \in DOMAIN objects : \A r \in DOMAIN objects[o].rels :
        (/\ objects[o].rels[r].object # None
         /\ objects[objects[o].rels[r].object].class = "Target")
        => objects[o].rels[r].id = objects[objects[o].rels[r].object].id

C31_SettersPersistNothing ==
    [][dlast'.op \in {"setattr", "_set_relation"}
       => LET o == dlast'.ref
          IN  /\ db' = db
              /\ \A x \in (DOMAIN objects) \ {o} : objects'[x] = objects[x]
              /\ objects'[o].id = objects[o].id
              /\ construct(objects[o].class, objects[o].id, db')
                    = construct(objects[o].class, objects[o].id, db)]_vars

\* p of an instance of the owner 1 was set to 7; the row still holds 5
C31_Witness ==
    /\ dlast.op = "setattr"
    /\ objects[dlast.ref].id = PyInt(1)
    /\ objects[dlast.ref].props.p = PyInt(7)
    /\ has_row(db.owner, PyInt(1))
    /\ db.owner.rows[1].p = SqlInt(5)

\* the identifiers of the instances a reverse accessor returned
EntryIds(call) == {call.entries[i].id.v : i \in 1..Len(call.entries)}

\* C33: every access of the reverse accessor returns one instance for each
\* owner row that points at the target in storage at that moment, whatever an
\* earlier access of the same instance returned, and keeps nothing on the
\* instance.
C33_ReverseAccessorReadsStorage ==
    [][(dlast'.op = "_get_foreign_relation" /\ dlast'.outcome = "ok")
       => LET id == objects[dlast'.ref].id
              pointing == {i \in DOMAIN db'.owner.rows :
                              id # PyNone /\ db'.owner.rows[i]["_target_id"] = SqlInt(id.v)}
          IN  /\ EntryIds(dlast') = pointing
              /\ Len(dlast'.entries) = Cardinality(pointing)
              /\ objects' = objects]_vars

\* a target instance read its owners and got the owner 1; the owner was then
\* saved or deleted, and the same instance read its owners again and got none
C33_Witness ==
    /\ dlast.op = "_get_foreign_relation"
    /\ dlast.entries = <<>>
    /\ Len(trail) = 2
    /\ trail[1].op = "_get_foreign_relation"
    /\ trail[1].ref = dlast.ref
    /\ EntryIds(trail[1]) = {1}
    /\ trail[2].op \in {"save", "delete"}

\* C34: a save on an instance whose row exists completes when another instance
\* of the same row exists, also right after the save of that other instance,
\* and the row afterwards holds the values of the saved instance in every
\* property and relation column.
C34_LastSaveWins ==
    [][(/\ dlast'.op = "save"
        /\ has_row(db[TableOf(dlast'.ref)], objects[dlast'.ref].id)
        /\ \E x \in (DOMAIN objects) \ {dlast'.ref} :
              /\ objects[x].class = objects[dlast'.ref].class
              /\ objects[x].id = objects[dlast'.ref].id)
       => LET o == dlast'.ref
          IN  /\ dlast'.outcome = "ok"
              /\ \A n \in DOMAIN prop_values(o) :
                    db'[TableOf(o)].rows[objects[o].id.v][n] = prop_values(o)[n]]_vars

\* two instances of the owner 1 were saved one after the other; they differ in
\* p and in the relation, and the row holds what the second one has
C34_Witness ==
    /\ dlast.op = "save"
    /\ trail # <<>>
    /\ trail[Len(trail)].op = "save"
    /\ trail[Len(trail)].ref # dlast.ref
    /\ objects[trail[Len(trail)].ref].id = PyInt(1)
    /\ objects[dlast.ref].id = PyInt(1)
    /\ Owners = {dlast.ref, trail[Len(trail)].ref}
    /\ objects[trail[Len(trail)].ref].props.p = PyInt(7)
    /\ objects[trail[Len(trail)].ref].rels.target.id = PyInt(1)
    /\ objects[dlast.ref].props.p = PyInt(5)
    /\ objects[dlast.ref].rels.target.id = PyNone
    /\ db.owner.rows[1] = [p |-> SqlInt(5), _target_id |-> SqlNull]

\* C37: apply_transaction(h) of a handle h that begin_transaction handed out
\* finds the buffer of h, whether h was committed before or not, and leaves
\* every buffer as it was.
C37_CommitKeepsTheBuffer ==
    [][(last'.op = "apply_transaction" /\ last'.transaction \in BegunHandles)
       => (last'.outcome # "KeyError" /\ _sequences' = _sequences)]_vars

\* C38: a call through a client of cluster X leaves the mapping of every other
\* cluster as it was, and what it returns is of the mapping of X, the one every
\* client of X reads: get returns the value X holds for the key and raises
\* when X does not hold it, prefix returns keys of X. Constructing a client
\* for a cluster name that has a mapping changes no mapping.
C38_PartitionedByCluster ==
    [][/\ (last'.op # "__init__" /\ last'.client # None)
          => LET X == _cluster[last'.client]
             IN  /\ DOMAIN _data' = DOMAIN _data
                 /\ \A Y \in (DOMAIN _data) \ {X} : _data'[Y] = _data[Y]
                 /\ last'.op = "get"
                    => IF last'.key \in DOMAIN _data[X]
                       THEN last'.outcome = "ok" /\ last'.rvalue = _data[X][last'.key]
                       ELSE last'.outcome = "ArakoonNotFound"
                 /\ last'.op = "prefix"
                    => {last'.rkeys[i] : i \in 1..Len(last'.rkeys)} = DOMAIN _data[X]
                 /\ (last'.op = "set" /\ last'.outcome = "ok")
                    => \A m \in Clients :
                          _cluster[m] = X => _data'[_cluster[m]][last'.key] = last'.value
       /\ last'.op = "__init__"
          => /\ \A c \in DOMAIN _data : c \in DOMAIN _data' /\ _data'[c] = _data[c]
             /\ \A c \in (DOMAIN _data') \ DOMAIN _data : _data'[c] = EmptyDict]_vars

\* a client was constructed for a cluster name that two clients have used:
\* the cluster holds a key still, and the other cluster holds another mapping
C38_Witness ==
    /\ last.op = "__init__"
    /\ _cluster[last.client] = "c1"
    /\ DOMAIN _data = Clusters
    /\ DOMAIN _data.c1 # {}
    /\ DOMAIN _data.c2 # {}
    /\ _data.c1 # _data.c2

\* C39: add_service for a name that has_service does not find registers the
\* name in state HALTED and keeps every service the client had, with its
\* state; add_service for a name that has_service finds changes nothing.
C39_AddServiceKeepsTheOthers ==
    [][slast'.op = "add_service"
       => LET key == slast'.key
              had == IF key \in DOMAIN services THEN DOMAIN services[key] ELSE {}
          IN  /\ \A n \in had :
                    /\ n \in DOMAIN services'[key]
                    /\ services'[key][n] = services[key][n]
              /\ has_service_value(slast'.name, key) => services' = services
              /\ ~has_service_value(slast'.name, key)
                 => services'[key][slast'.name] = "HALTED"]_vars

Forbidden == {401, 403}

\* C40 as stated: a _call sends at most two requests; when the response to the
\* first is 401 or 403 and no token was present before it, no second request
\* is sent and HttpForbiddenException reaches the caller; when a token was
\* present, the request is sent once more, with a newly obtained token, unless
\* the token request fails; a 401 or 403 to the second request reaches the
\* caller as HttpForbiddenException.
C40_RetryOnForbidden ==
    alast.op = "_call"
    => /\ alast.requests <= 2
       /\ (alast.requests >= 1 /\ alast.statuses[1] \in Forbidden)
          => IF alast.first_connect
             THEN alast.requests = 1 /\ alast.outcome = "HttpForbiddenException"
             ELSE \/ /\ alast.requests = 2
                     /\ alast.sent[2] \notin {None, alast.sent[1]}
                  \/ alast.requests = 1 /\ alast.connects = 1 /\ alast.outcome # "ok"
       /\ (alast.requests = 2 /\ alast.statuses[2] \in Forbidden)
          => alast.outcome = "HttpForbiddenException"

\* C40, amended: a _call sends at most two requests and at most one token
\* request. A client with _raw_response set returns every response as it is:
\* one request, no retry, no error. Otherwise a second request is sent exactly
\* when the first response is 401 or 403, a token was present before the first
\* request and the new token request succeeds; it carries the new token, and
\* its 401 or 403 reaches the caller. Without a token before the first request
\* the 401 or 403 reaches the caller after one request.
C40_RetryOnForbiddenUnlessRaw ==
    alast.op = "_call"
    => /\ alast.requests <= 2
       /\ alast.connects <= 1
       /\ baseclient._raw_response
          => /\ alast.requests <= 1
             /\ alast.requests = 1 => alast.outcome = "ok"
       /\ alast.requests = 2
          => /\ alast.statuses[1] \in Forbidden
             /\ ~alast.first_connect
             /\ alast.connects = 1
             /\ alast.sent[1] # None
             /\ alast.sent[2] \notin {None, alast.sent[1]}
             /\ alast.sent[2] = issued
       /\ (/\ ~baseclient._raw_response
           /\ alast.requests >= 1
           /\ alast.statuses[1] \in Forbidden)
          => IF alast.first_connect
             THEN alast.requests = 1 /\ alast.outcome = "HttpForbiddenException"
             ELSE \/ alast.requests = 2
                  \/ alast.requests = 1 /\ alast.connects = 1 /\ alast.outcome # "ok"
       /\ (alast.requests = 2 /\ alast.statuses[2] \in Forbidden)
          => alast.outcome = "HttpForbiddenException"

\* the request was answered 403, sent again with a new token and answered 403
C40_Witness ==
    /\ alast.op = "_call"
    /\ alast.requests = 2
    /\ alast.statuses = <<403, 403>>
    /\ alast.outcome = "HttpForbiddenException"
    /\ alast.sent[1] # alast.sent[2]
    /\ baseclient._volatile_client
    /\ volatile = alast.sent[2]

====
